---- MODULE Spec2Model ----
(***************************************************************************)
(* A model of the price-resolution gateway (MarketDataProvider), of the    *)
(* sentiment engine (SentimentAnalyzer), of the social provider            *)
(* (XApiProvider) and of the prediction facade (PredictionService) of the  *)
(* BTC-based stock price predictor.                                        *)
(*                                                                         *)
(* Every public operation is one action.  The answers of the outside world *)
(* (HTTP responses, quote-library answers, the wall clock, the downloaded  *)
(* closes) are inputs of the action, drawn from small sets.  The action    *)
(* records the request and the answers it saw in op, the provider calls it *)
(* made, in order, in calls, and what it returned in ret.                  *)
(*                                                                         *)
(* Optional values: None is the empty tuple, a present value v is <<v>>.   *)
(* Prices are integers.  Closing prices are powers of two, so that their   *)
(* logarithms (taken to base 2 instead of e) are integers and the          *)
(* regressions are exact rational arithmetic; beta, R^2 and the power-law  *)
(* prediction do not depend on the base of the logarithm.                  *)
(***************************************************************************)
EXTENDS Integers, Sequences, FiniteSets, TLC

VARIABLES
  FINNHUB_API_KEY,  \* settings.FINNHUB_API_KEY, a process-wide mutable setting
  social_media_provider, \* PredictionService.social_media_provider: None, or
                    \* the XApiProvider with the bearer_token it was built with
  finbert_pipeline, \* SentimentAnalyzer.finbert_pipeline: loaded (TRUE) or None
  finbert_loads,    \* the outcomes of the model loads this SentimentAnalyzer
                    \* attempted, in order
  op,               \* the last operation called: its arguments, the world's answers
                    \* and, for get_market_sentiment, the values it computed
  calls,            \* the provider calls that operation made, in order
  ret               \* what that operation returned

\* What construction fixes for the life of the process.
wiring == <<social_media_provider, finbert_pipeline, finbert_loads>>

vars ==
  <<FINNHUB_API_KEY, social_media_provider, finbert_pipeline, finbert_loads, op, calls, ret>>

None == << >>
Some(v) == <<v>>

\* Python truthiness of an Optional number: None and 0 are falsy.
Truthy(o) == o # None /\ o[1] # 0

\* Python's `a or b` on Optional numbers.
PyOr(a, b) == IF Truthy(a) THEN a ELSE b

Returned(v) == [kind |-> "return", value |-> v]
Raised == [kind |-> "raise"]

-----------------------------------------------------------------------------
(* The outside world's answers.                                            *)

\* An HTTP GET of a JSON quote endpoint: the request raises (network error,
\* timeout), or answers with a status code and a body; price = None is a body
\* from which the price field cannot be read (no JSON, no such key, no number).
HttpResponses ==
  [raises : BOOLEAN, status : {200, 503}, price : {None, Some(0), Some(16)}]

\* yfinance for one ticker: fast_info raises, is absent, or answers with a
\* last_price (None when the key is missing); history(period="1d") raises, is
\* empty, or ends with a close.
YfResponses ==
  [fast : {"raise", "absent", "present"}, last_price : {None, Some(0), Some(32)},
   hist : {"raise", "empty", "rows"}, close : {Some(8)}]

\* The quote library as the fall-back of get_extended_stock_info sees it.
YfFallbackResponses ==
  {yf \in YfResponses : yf.fast = "present" /\ yf.hist # "raise"}

\* The 24h-statistics endpoint of the reference asset: as HttpResponses, with
\* the two fields the code reads (None: the field cannot be read).
StatsResponses ==
  [raises : BOOLEAN, status : {200, 503}, lastPrice : {None, Some(16)},
   prevClosePrice : {None, Some(8)}]

\* yf.Ticker(ticker).info: reading it raises, or it is a dictionary; a missing
\* key reads as None.  marketState "PREPRE" stands for the upstream states the
\* code does not map.
InfoResponses ==
  [raises : {TRUE}, marketState : {None}, currentPrice : {None},
   regularMarketPrice : {None}, preMarketPrice : {None},
   postMarketPrice : {None}, previousClose : {None}]
  \cup
  [raises : {FALSE},
   marketState : {None, Some("REGULAR"), Some("PRE"), Some("POST"),
                  Some("CLOSED"), Some("PREPRE")},
   currentPrice : {None, Some(16)}, regularMarketPrice : {None, Some(8)},
   preMarketPrice : {Some(4)}, postMarketPrice : {None},
   previousClose : {Some(2)}]

\* A time of day, in seconds since midnight.
HMS(h, m, sec) == h * 3600 + m * 60 + sec

\* The wall clock in US/Eastern: weekday() (Monday is 0) and time().
Weekdays == {0, 4, 5, 6}
TimesOfDay ==
  {HMS(0, 0, 0), HMS(3, 59, 59), HMS(4, 0, 0), HMS(9, 29, 59), HMS(9, 30, 0),
   HMS(12, 0, 0), HMS(16, 0, 0), HMS(16, 0, 1), HMS(20, 0, 0), HMS(20, 0, 1),
   HMS(23, 59, 59)}
Clocks == [weekday : Weekdays, time : TimesOfDay]

Tickers == {"BTC-USD", "MSTR"}

\* The most rows a download holds.
MaxRows == 11

\* predict_price needs this many aligned rows.
MinRows == 10

RECURSIVE Pow2(_)
Pow2(k) == IF k = 0 THEN 1 ELSE 2 * Pow2(k - 1)

\* The daily closes the history provider holds, as the base-2 logarithm of the
\* close on day i.  "zig" and "zag" move against each other, "zig2" moves
\* twice as far as "zig", "saw" has period 3, "flat" does not move.
LogClose(shape, i) ==
  CASE shape = "flat" -> 5
    [] shape = "zig"  -> 4 + (i % 2)
    [] shape = "zag"  -> 5 - (i % 2)
    [] shape = "zig2" -> 3 + 2 * (i % 2)
    [] shape = "saw"  -> 4 + (i % 3)

\* One ticker's closes: a row per day of 1..rows on which it traded.
Closes(shape, rows, holes) ==
  LET all == [i \in 1..rows |-> [date |-> i, close |-> Pow2(LogClose(shape, i))]]
  IN SelectSeq(all, LAMBDA r : r.date \notin holes)

\* What the history provider holds for the reference asset and the proxy.
Worlds ==
  [rows : {0} \cup ((MinRows - 1)..MaxRows),
   shapes : {[btc |-> "zig", stock |-> "zig"], [btc |-> "zig", stock |-> "zag"],
             [btc |-> "zig", stock |-> "flat"], [btc |-> "flat", stock |-> "zig"],
             [btc |-> "saw", stock |-> "zig"], [btc |-> "zig", stock |-> "zig2"]},
   holes : {[btc |-> {}, stock |-> {}], [btc |-> {}, stock |-> {3}],
            [btc |-> {5}, stock |-> {3}]}]

WorldBtc(w) == Closes(w.shapes.btc, w.rows, w.holes.btc)
WorldStock(w) == Closes(w.shapes.stock, w.rows, w.holes.stock)

\* How yf.download answers: the batched call raises, or answers with or without
\* the two expected columns; the single-ticker calls raise or answer.
DownloadResponses ==
  [batch : {"raise", "columns", "no_columns"}, single_raises : BOOLEAN]

-----------------------------------------------------------------------------
(* MarketDataProvider: the realtime chains.  Each operator returns         *)
(* [out |-> outcome, calls |-> provider calls made].                       *)

\* HttpQuote without the status check.
HttpQuote_NoStatusCheck(r) ==
  IF r.raises THEN None ELSE r.price

\* The outcome of one quote request guarded by `status_code == 200`:
\* a price, or "fall through" (None here) on an exception, a non-200 status,
\* or a body that raises when the price is read.
HttpQuote(r) ==
  IF r.raises THEN None
  ELSE IF r.status # 200 THEN None
  ELSE r.price

_get_yfinance_price(yf) ==
  IF yf.fast = "raise" THEN [out |-> Returned(None), calls |-> <<"yf.fast_info">>]
  ELSE IF yf.fast = "present" /\ Truthy(yf.last_price)
    THEN [out |-> Returned(yf.last_price), calls |-> <<"yf.fast_info">>]
  ELSE LET pre == IF yf.fast = "present" THEN <<"yf.fast_info">> ELSE << >>
       IN IF yf.hist = "raise"
            THEN [out |-> Returned(None), calls |-> pre \o <<"yf.history">>]
          ELSE IF yf.hist = "rows"
            THEN [out |-> Returned(yf.close), calls |-> pre \o <<"yf.history">>]
          ELSE [out |-> Returned(None), calls |-> pre \o <<"yf.history">>]

\* get_realtime_btc_price asking the spot-price API a second time after a
\* failure.
get_realtime_btc_price_Retrying(binance, yf) ==
  IF HttpQuote(binance) # None
    THEN [out |-> Returned(HttpQuote(binance)), calls |-> <<"binance">>]
  ELSE [out |-> _get_yfinance_price(yf).out,
        calls |-> <<"binance", "binance">> \o _get_yfinance_price(yf).calls]

get_realtime_btc_price(binance, yf) ==
  LET q == HttpQuote(binance)
  IN IF q # None
       THEN [out |-> Returned(q), calls |-> <<"binance">>]
     ELSE LET f == _get_yfinance_price(yf)
          IN [out |-> f.out, calls |-> <<"binance">> \o f.calls]

\* get_realtime_stock_price trying the low-latency provider whatever the key.
get_realtime_stock_price_AlwaysFinnhub(key, finnhub, yf) ==
  IF HttpQuote(finnhub) # None
    THEN [out |-> Returned(HttpQuote(finnhub)), calls |-> <<"finnhub">>]
  ELSE [out |-> _get_yfinance_price(yf).out,
        calls |-> <<"finnhub">> \o _get_yfinance_price(yf).calls]

get_realtime_stock_price(key, finnhub, yf) ==
  LET tried == key # ""
      q == IF tried THEN HttpQuote(finnhub) ELSE None
      pre == IF tried THEN <<"finnhub">> ELSE << >>
  IN IF q # None
       THEN [out |-> Returned(q), calls |-> pre]
     ELSE LET f == _get_yfinance_price(yf)
          IN [out |-> f.out, calls |-> pre \o f.calls]

-----------------------------------------------------------------------------
(* MarketDataProvider.get_extended_stock_info                              *)

market_open == HMS(9, 30, 0)
market_close == HMS(16, 0, 0)
pre_start == HMS(4, 0, 0)
post_end == HMS(20, 0, 0)

\* TimeWindowState with the opening bound exclusive.
TimeWindowState_OpenExclusive(now) ==
  IF now.weekday >= 5 THEN "CLOSED"
  ELSE IF market_open < now.time /\ now.time <= market_close THEN "OPEN"
  ELSE IF pre_start <= now.time /\ now.time <= market_open THEN "PRE"
  ELSE IF market_close < now.time /\ now.time <= post_end THEN "POST"
  ELSE "CLOSED"

\* TimeWindowState with the closing bound given to the post-market window.
TimeWindowState_CloseExclusive(now) ==
  IF now.weekday >= 5 THEN "CLOSED"
  ELSE IF market_open <= now.time /\ now.time < market_close THEN "OPEN"
  ELSE IF pre_start <= now.time /\ now.time < market_open THEN "PRE"
  ELSE IF market_close <= now.time /\ now.time <= post_end THEN "POST"
  ELSE "CLOSED"

\* The "Simple Market State Logic": the state by the wall clock alone.
TimeWindowState(now) ==
  LET is_weekend == now.weekday >= 5
      current_time == now.time
  IN IF is_weekend THEN "CLOSED"
     ELSE IF market_open <= current_time /\ current_time <= market_close THEN "OPEN"
     ELSE IF pre_start <= current_time /\ current_time < market_open THEN "PRE"
     ELSE IF market_close < current_time /\ current_time <= post_end THEN "POST"
     ELSE "CLOSED"

\* "Try to use Yahoo's marketState if available".
\* YahooState keeping the state of the time windows.
YahooState_Ignored(info, market_state) == market_state

YahooState(info, market_state) ==
  IF info.marketState = None THEN market_state
  ELSE IF info.marketState[1] = "REGULAR" THEN "OPEN"
  ELSE IF info.marketState[1] \in {"PRE", "POST", "CLOSED"} THEN info.marketState[1]
  ELSE market_state

\* The reference asset: 24h statistics, else the realtime chain.
ExtendedCrypto(stats, binance, yf) ==
  IF ~stats.raises /\ stats.status = 200 /\ stats.lastPrice # None
     /\ stats.prevClosePrice # None
    THEN [out |-> Returned([price |-> stats.lastPrice, market_state |-> "OPEN",
                            regular_market_price |-> stats.lastPrice,
                            pre_market_price |-> None, post_market_price |-> None,
                            previous_close |-> stats.prevClosePrice]),
          calls |-> <<"binance.24hr">>]
  ELSE LET r == get_realtime_btc_price(binance, yf)
       IN [out |-> Returned([price |-> r.out.value, market_state |-> "OPEN",
                             regular_market_price |-> r.out.value,
                             pre_market_price |-> None, post_market_price |-> None,
                             previous_close |-> None]),
           calls |-> <<"binance.24hr">> \o r.calls]

\* ExtendedStock without the outer handler: a failing ticker lookup escapes.
ExtendedStock_NoOuterHandler(ctor_raises, now, info, yf) ==
  IF ctor_raises THEN [out |-> Raised, calls |-> <<"yf.Ticker">>]
  ELSE [out |-> Returned([price |-> _get_yfinance_price(yf).out.value,
                          market_state |-> TimeWindowState(now),
                          regular_market_price |-> _get_yfinance_price(yf).out.value,
                          pre_market_price |-> None, post_market_price |-> None,
                          previous_close |-> None]),
        calls |-> <<"yf.Ticker", "yf.info">> \o _get_yfinance_price(yf).calls]

\* Any other ticker: the clock's state, then the quote info, else fast_info.
ExtendedStock(ctor_raises, now, info, yf) ==
  IF ctor_raises
    THEN [out |-> Returned([price |-> None, market_state |-> "CLOSED",
                            error |-> "error", previous_close |-> None]),
          calls |-> <<"yf.Ticker">>]
  ELSE LET market_state == TimeWindowState(now)
       IN IF ~info.raises
            THEN [out |-> Returned(
                    [price |-> PyOr(info.currentPrice, info.regularMarketPrice),
                     market_state |-> YahooState(info, market_state),
                     regular_market_price |-> info.regularMarketPrice,
                     pre_market_price |-> info.preMarketPrice,
                     post_market_price |-> info.postMarketPrice,
                     previous_close |-> info.previousClose]),
                  calls |-> <<"yf.Ticker", "yf.info">>]
          ELSE LET r == _get_yfinance_price(yf)
               IN [out |-> Returned([price |-> r.out.value,
                                     market_state |-> market_state,
                                     regular_market_price |-> r.out.value,
                                     pre_market_price |-> None,
                                     post_market_price |-> None,
                                     previous_close |-> None]),
                   calls |-> <<"yf.Ticker", "yf.info">> \o r.calls]

-----------------------------------------------------------------------------
(* MarketDataProvider.get_historical_data                                  *)

\* series[date], None when the series has no row of that date.
ValueAt(series, d) ==
  IF \E i \in 1..Len(series) : series[i].date = d
    THEN Some(series[CHOOSE i \in 1..Len(series) : series[i].date = d].close)
  ELSE None

RECURSIVE SortedDates(_)
SortedDates(dates) ==
  IF dates = {} THEN << >>
  ELSE LET d == CHOOSE x \in dates : \A y \in dates : x <= y
       IN <<d>> \o SortedDates(dates \ {d})

\* A two-column frame over the dates of index; a date one series lacks holds
\* None (NaN) in its column.
Frame(stock_data, btc_data, index) ==
  [k \in 1..Len(index) |->
     [date |-> index[k], stock |-> ValueAt(stock_data, index[k]),
      btc |-> ValueAt(btc_data, index[k])]]

Dates(series) == {series[i].date : i \in 1..Len(series)}

\* The frame of two series: its index is the union of their dates, in order.
DataFrame(stock_data, btc_data) ==
  Frame(stock_data, btc_data, SortedDates(Dates(stock_data) \cup Dates(btc_data)))

\* dropna(how="all"): a row is dropped only when both values are missing.
dropna_HowAll(data) == SelectSeq(data, LAMBDA r : r.stock # None \/ r.btc # None)

dropna(data) == SelectSeq(data, LAMBDA r : r.stock # None /\ r.btc # None)

\* get_historical_data without its exception handler.
get_historical_data_Raising(dl, stock_data, btc_data) ==
  IF dl.batch = "raise" \/ (dl.batch = "no_columns" /\ dl.single_raises)
    THEN [out |-> Raised, calls |-> <<"yf.download">>]
  ELSE [out |-> Returned(dropna(DataFrame(stock_data, btc_data))),
        calls |-> <<"yf.download">>]

get_historical_data(dl, stock_data, btc_data) ==
  IF dl.batch = "raise"
    THEN [out |-> Returned(<< >>), calls |-> <<"yf.download">>]
  ELSE IF dl.batch = "columns"
    THEN [out |-> Returned(dropna(DataFrame(stock_data, btc_data))),
          calls |-> <<"yf.download">>]
  ELSE IF dl.single_raises
    THEN [out |-> Returned(<< >>), calls |-> <<"yf.download", "yf.download.stock">>]
  ELSE [out |-> Returned(dropna(DataFrame(stock_data, btc_data))),
        calls |-> <<"yf.download", "yf.download.stock", "yf.download.btc">>]

-----------------------------------------------------------------------------
(* Exact arithmetic for the floating-point computations: a rational is     *)
(* <<numerator, denominator>> in lowest terms with a positive denominator. *)

Abs(n) == IF n < 0 THEN -n ELSE n

RECURSIVE Gcd(_, _)
Gcd(a, b) == IF b = 0 THEN a ELSE Gcd(b, a % b)

Reduced(n, d, g) == IF d < 0 THEN <<-(n \div g), -(d \div g)>> ELSE <<n \div g, d \div g>>
Rat(n, d) == Reduced(n, d, Gcd(Abs(n), Abs(d)))

Int2Rat(n) == <<n, 1>>
RAdd(a, b) == Rat(a[1] * b[2] + b[1] * a[2], a[2] * b[2])
RSub(a, b) == Rat(a[1] * b[2] - b[1] * a[2], a[2] * b[2])
RMul(a, b) == Rat(a[1] * b[1], a[2] * b[2])
RDiv(a, b) == Rat(a[1] * b[2], a[2] * b[1])
RSign(a) == IF a[1] > 0 THEN 1 ELSE IF a[1] < 0 THEN -1 ELSE 0

RECURSIVE Log2(_)
Log2(n) == IF n <= 1 THEN 0 ELSE 1 + Log2(n \div 2)

\* f[1] + ... + f[n].
RECURSIVE Sigma(_, _)
Sigma(n, f) == IF n = 0 THEN 0 ELSE f[n] + Sigma(n - 1, f)

\* R^2 = 1 - u/v with u the residual and v the total sum of squares; when
\* v = 0, R^2 is 1 for a perfect fit (u = 0) and 0 otherwise.
r2_score(u, v) ==
  IF v[1] # 0 THEN RSub(Int2Rat(1), RDiv(u, v))
  ELSE IF u[1] = 0 THEN Int2Rat(1) ELSE Int2Rat(0)

\* The fit with slope coef, from the centred moments (times n):
\* u = sum (y - intercept - coef x)^2, v = sum (y - mean y)^2.
Fitted(n, sx, sy, cxx, cxy, cyy, coef) ==
  [coef |-> coef,
   intercept |-> RDiv(RSub(Int2Rat(sy), RMul(coef, Int2Rat(sx))), Int2Rat(n)),
   score |-> r2_score(
     RDiv(RAdd(RSub(Int2Rat(cyy), RMul(Int2Rat(2 * cxy), coef)),
               RMul(RMul(coef, coef), Int2Rat(cxx))), Int2Rat(n)),
     Rat(cyy, n))]

\* The least-squares slope; the minimum-norm solution, 0, when X does not vary.
LeastSquares(n, sx, sy, cxx, cxy, cyy) ==
  Fitted(n, sx, sy, cxx, cxy, cyy,
         IF cxx = 0 THEN Int2Rat(0) ELSE Rat(cxy, cxx))

Moments(n, sx, sy, sxx, sxy, syy) ==
  LeastSquares(n, sx, sy, n * sxx - sx * sx, n * sxy - sx * sy, n * syy - sy * sy)

\* sklearn's LinearRegression().fit(X, y) with one feature, and its
\* score(X, y).
LinearRegression(X, y) ==
  Moments(Len(X),
          Sigma(Len(X), X), Sigma(Len(X), y),
          Sigma(Len(X), [i \in 1..Len(X) |-> X[i] * X[i]]),
          Sigma(Len(X), [i \in 1..Len(X) |-> X[i] * y[i]]),
          Sigma(Len(X), [i \in 1..Len(X) |-> y[i] * y[i]]))

-----------------------------------------------------------------------------
(* PredictionService.predict_price                                         *)

\* np.log(data / data.shift(1)).dropna() of one column.
LogReturns(col) ==
  [i \in 1..(Len(col) - 1) |-> Log2(col[i + 1]) - Log2(col[i])]

\* The signed square root of R^2, kept exact: the number
\* (-1 if neg else 1) * sqrt(sq).
Correlation(beta, r_squared) ==
  [neg |-> ~(beta[1] > 0), sq |-> r_squared]

\* CurrentPrice preferring the realtime quote to the manual input.
CurrentPrice_RealtimeFirst(manual, realtime, last_close) ==
  IF Truthy(realtime) THEN realtime[1]
  ELSE IF manual > 0 THEN manual ELSE last_close

\* A current price: the manual input if positive, else the realtime quote,
\* else the last close of the series.
CurrentPrice(manual, realtime, last_close) ==
  IF manual <= 0 THEN PyOr(realtime, Some(last_close))[1] ELSE manual

\* BetaModel with the price ratio taken for the return.
BetaModel_RatioAsReturn(beta, target, current_btc, current_stock, multiplier) ==
  RMul(RMul(Int2Rat(current_stock),
            RAdd(Int2Rat(1), RMul(beta, Rat(target, current_btc)))),
       multiplier)

\* Step 4, the beta model.
BetaModel(beta, target, current_btc, current_stock, multiplier) ==
  RMul(RMul(Int2Rat(current_stock),
            RAdd(Int2Rat(1), RMul(beta, Rat(target - current_btc, current_btc)))),
       multiplier)

\* The log-log regression over the whole aligned history.
LogModel(data) ==
  LinearRegression([i \in 1..Len(data) |-> Log2(data[i].btc[1])],
                   [i \in 1..Len(data) |-> Log2(data[i].stock[1])])

\* log_model.predict([[log_target_btc]])[0]
Predict(log_model, log_target_btc) ==
  RAdd(log_model.intercept, RMul(log_model.coef, Int2Rat(log_target_btc)))

\* PowerLaw with the sentinel for negative targets only.
PowerLaw_ZeroEvaluated(data, target, multiplier) ==
  IF target >= 0
    THEN [coef |-> multiplier, exp2 |-> Predict(LogModel(data), Log2(target)),
          fitted |-> TRUE]
  ELSE [coef |-> Int2Rat(0), exp2 |-> Int2Rat(0), fitted |-> FALSE]

\* Step 5, the power law: the number coef * 2^exp2, kept exact; 0.0 is
\* coef = 0.  fitted tells whether the log-log regression was evaluated.
PowerLaw(data, target, multiplier) ==
  IF target > 0
    THEN [coef |-> multiplier, exp2 |-> Predict(LogModel(data), Log2(target)),
          fitted |-> TRUE]
  ELSE [coef |-> Int2Rat(0), exp2 |-> Int2Rat(0), fitted |-> FALSE]

\* Step 2, the regression of the proxy's log-returns on the reference's.
ReturnModel(data) ==
  LinearRegression(LogReturns([i \in 1..Len(data) |-> data[i].btc[1]]),
                   LogReturns([i \in 1..Len(data) |-> data[i].stock[1]]))

PredictionResult(data, model, current_btc, current_stock, target, multiplier) ==
  [type |-> "PredictionResult",
   current_btc_price |-> current_btc,
   current_stock_price |-> current_stock,
   predicted_stock_price_beta |->
     BetaModel(model.coef, target, current_btc, current_stock, multiplier),
   predicted_stock_price_power_law |-> PowerLaw(data, target, multiplier),
   beta |-> model.coef,
   correlation |-> Correlation(model.coef, model.score)]

NoPrediction == [type |-> "None"]

LastRow(data) == data[Len(data)]

\* predict_price demanding more than MinRows rows.
predict_price_StrictMinimum(data, rt_btc, rt_stock, target, multiplier, manual_btc, manual_stock) ==
  IF Len(data) <= MinRows
    THEN [out |-> Returned(NoPrediction), calls |-> <<"get_historical_data">>]
  ELSE [out |-> Returned(PredictionResult(
                  data, ReturnModel(data),
                  CurrentPrice(manual_btc, rt_btc, LastRow(data).btc[1]),
                  CurrentPrice(manual_stock, rt_stock, LastRow(data).stock[1]),
                  target, multiplier)),
        calls |-> <<"get_historical_data">>]

\* predict_price asking both realtime providers whatever the series and the
\* manual overrides are.
predict_price_EagerQuotes(data, rt_btc, rt_stock, target, multiplier, manual_btc, manual_stock) ==
  [out |-> IF data = << >> \/ Len(data) < MinRows THEN Returned(NoPrediction)
           ELSE Returned(PredictionResult(
                  data, ReturnModel(data),
                  CurrentPrice(manual_btc, rt_btc, LastRow(data).btc[1]),
                  CurrentPrice(manual_stock, rt_stock, LastRow(data).stock[1]),
                  target, multiplier)),
   calls |-> <<"get_historical_data", "get_realtime_btc_price",
               "get_realtime_stock_price">>]

predict_price(data, rt_btc, rt_stock, target, multiplier, manual_btc, manual_stock) ==
  IF data = << >> \/ Len(data) < MinRows
    THEN [out |-> Returned(NoPrediction), calls |-> <<"get_historical_data">>]
  ELSE [out |-> Returned(PredictionResult(
                  data, ReturnModel(data),
                  CurrentPrice(manual_btc, rt_btc, LastRow(data).btc[1]),
                  CurrentPrice(manual_stock, rt_stock, LastRow(data).stock[1]),
                  target, multiplier)),
        calls |-> <<"get_historical_data">>
                  \o (IF manual_btc <= 0 THEN <<"get_realtime_btc_price">>
                      ELSE << >>)
                  \o (IF manual_stock <= 0 THEN <<"get_realtime_stock_price">>
                      ELSE << >>)]

-----------------------------------------------------------------------------
(* Actions of the gateway.                                                 *)

\* No operation is in progress: the engine is synchronous and request-scoped,
\* the caller takes each result before it makes the next call.
Idle == op.name = "idle"
NoResult == [kind |-> "idle"]

\* The caller has taken the result; nothing of the request is kept.
Discard ==
  /\ ~Idle
  /\ op' = [name |-> "idle"]
  /\ calls' = << >>
  /\ ret' = NoResult
  /\ UNCHANGED <<FINNHUB_API_KEY, wiring>>

\* The dashboard stores a key typed by the user into the settings object;
\* an empty input leaves the setting as it is.
SetFinnhubKey ==
  /\ Idle
  /\ FINNHUB_API_KEY' = "key"
  /\ UNCHANGED <<wiring, op, calls, ret>>

RealtimeBtc ==
  /\ Idle
  /\ \E binance \in HttpResponses, yf \in YfResponses :
       LET r == get_realtime_btc_price(binance, yf)
       IN /\ op' = [name |-> "get_realtime_btc_price", binance |-> binance, yf |-> yf]
          /\ calls' = r.calls
          /\ ret' = r.out
          /\ UNCHANGED <<FINNHUB_API_KEY, wiring>>

RealtimeStock ==
  /\ Idle
  /\ \E finnhub \in HttpResponses, yf \in YfResponses :
       LET r == get_realtime_stock_price(FINNHUB_API_KEY, finnhub, yf)
       IN /\ op' = [name |-> "get_realtime_stock_price", key |-> FINNHUB_API_KEY,
                    finnhub |-> finnhub, yf |-> yf]
          /\ calls' = r.calls
          /\ ret' = r.out
          /\ UNCHANGED <<FINNHUB_API_KEY, wiring>>

ExtendedInfoCrypto ==
  /\ Idle
  /\ \E stats \in StatsResponses, binance \in HttpResponses,
        yf \in YfFallbackResponses :
       LET r == ExtendedCrypto(stats, binance, yf)
       IN /\ op' = [name |-> "get_extended_stock_info", ticker |-> "BTC-USD",
                    stats |-> stats, binance |-> binance, yf |-> yf]
          /\ calls' = r.calls
          /\ ret' = r.out
          /\ UNCHANGED <<FINNHUB_API_KEY, wiring>>

ExtendedInfoStock ==
  /\ Idle
  /\ \E ticker \in Tickers \ {"BTC-USD"}, ctor_raises \in BOOLEAN, now \in Clocks,
        info \in InfoResponses, yf \in YfFallbackResponses :
       LET r == ExtendedStock(ctor_raises, now, info, yf)
       IN /\ op' = [name |-> "get_extended_stock_info", ticker |-> ticker,
                    ctor_raises |-> ctor_raises, now |-> now, info |-> info,
                    yf |-> yf]
          /\ calls' = r.calls
          /\ ret' = r.out
          /\ UNCHANGED <<FINNHUB_API_KEY, wiring>>

HistoricalData ==
  /\ Idle
  /\ \E ticker \in Tickers \ {"BTC-USD"}, w \in Worlds, dl \in DownloadResponses :
       LET r == get_historical_data(dl, WorldStock(w), WorldBtc(w))
       IN /\ op' = [name |-> "get_historical_data", ticker |-> ticker,
                    world |-> w, download |-> dl]
          /\ calls' = r.calls
          /\ ret' = r.out
          /\ UNCHANGED <<FINNHUB_API_KEY, wiring>>

\* The options of the "Adjust Sentiment Impact" slider of the dashboard.
EventImpacts == {"Very Bearish", "Bearish", "Neutral", "Bullish", "Very Bullish"}

\* impact_multipliers with the bearish and the bullish factors exchanged.
impact_multipliers_Exchanged(event_impact) ==
  CASE event_impact = "Very Bearish" -> Rat(130, 100)
    [] event_impact = "Bearish" -> Rat(115, 100)
    [] event_impact = "Neutral" -> Rat(100, 100)
    [] event_impact = "Bullish" -> Rat(85, 100)
    [] event_impact = "Very Bullish" -> Rat(70, 100)
    [] OTHER -> Rat(100, 100)

\* impact_multipliers.get(event_impact, 1.0)
impact_multipliers(event_impact) ==
  CASE event_impact = "Very Bearish" -> Rat(70, 100)
    [] event_impact = "Bearish" -> Rat(85, 100)
    [] event_impact = "Neutral" -> Rat(100, 100)
    [] event_impact = "Bullish" -> Rat(115, 100)
    [] event_impact = "Very Bullish" -> Rat(130, 100)
    [] OTHER -> Rat(100, 100)

\* The inputs of a prediction: the target reference price and the manual
\* overrides (0 or less: none).
Targets == {-4, 0, 16}
ManualBtc == {-1, 0, 8}
ManualStock == {0, 4}

\* The realtime answers a prediction is run against.
PredictBinance ==
  {r \in HttpResponses : r.status = 200 /\ (r.raises => r.price = None)
                         /\ (~r.raises => r.price # None)}
PredictYf ==
  {yf \in YfResponses : yf.fast = "present" /\ yf.last_price # Some(0)
                        /\ yf.hist = "empty"}
PredictDownload ==
  {dl \in DownloadResponses : ~dl.single_raises /\ dl.batch # "no_columns"}

\* One prediction against the answers of the three providers.
PredictWith(ticker, w, dl, hist, rt_btc, rt_stock, target, event_impact, manual_btc, manual_stock, r) ==
  /\ op' = [name |-> "predict_price", ticker |-> ticker, world |-> w,
            download |-> dl, data |-> hist,
            realtime_btc |-> rt_btc, realtime_stock |-> rt_stock,
            target_btc_price |-> target, event_impact |-> event_impact,
            event_impact_multiplier |-> impact_multipliers(event_impact),
            manual_current_btc |-> manual_btc, manual_current_stock |-> manual_stock]
  /\ calls' = r.calls
  /\ ret' = r.out
  /\ UNCHANGED <<FINNHUB_API_KEY, wiring>>

PredictPrice ==
  /\ Idle
  /\ \E ticker \in Tickers \ {"BTC-USD"}, w \in Worlds, dl \in PredictDownload :
       \E hist \in {get_historical_data(dl, WorldStock(w), WorldBtc(w)).out.value} :
         \E binance \in PredictBinance, yf \in PredictYf,
            target \in Targets, event_impact \in EventImpacts,
            manual_btc \in ManualBtc, manual_stock \in ManualStock :
           \E rt_btc \in {get_realtime_btc_price(
                             binance, [yf EXCEPT !.fast = "raise"]).out.value},
              rt_stock \in {get_realtime_stock_price(
                               FINNHUB_API_KEY, binance, yf).out.value} :
             PredictWith(ticker, w, dl, hist, rt_btc, rt_stock, target, event_impact,
                         manual_btc, manual_stock,
                         predict_price(hist, rt_btc, rt_stock, target,
                                       impact_multipliers(event_impact),
                                       manual_btc, manual_stock))

\* The dashboard's wiring under the default settings: an XApiProvider built
\* without a bearer token, and a sentiment analyzer whose FinBERT pipeline
\* loaded.
Init ==
  /\ FINNHUB_API_KEY = ""
  /\ social_media_provider = Some([bearer_token |-> ""])
  /\ finbert_pipeline = TRUE
  /\ finbert_loads = <<"ok">>
  /\ op = [name |-> "idle"]
  /\ calls = << >>
  /\ ret = NoResult

NextGateway ==
  \/ SetFinnhubKey
  \/ RealtimeBtc
  \/ RealtimeStock
  \/ ExtendedInfoCrypto
  \/ ExtendedInfoStock
  \/ HistoricalData
  \/ Discard

SpecGateway == Init /\ [][NextGateway]_vars

NextPredict == PredictPrice \/ Discard

SpecPredict == Init /\ [][NextPredict]_vars

-----------------------------------------------------------------------------
(* Properties of predict_price, under SpecPredict.                         *)

Predicting == op.name = "predict_price"
Predicted == Predicting /\ ret.kind = "return" /\ ret.value.type = "PredictionResult"

\* The rows the provider holds on which both assets have a close; none when
\* the download raises.
AlignedDates(w, dl) ==
  IF dl.batch = "raise" \/ (dl.batch = "no_columns" /\ dl.single_raises) THEN {}
  ELSE (1..w.rows) \ (w.holes.btc \cup w.holes.stock)

LastClose(shape, w, dl) ==
  Pow2(LogClose(shape, CHOOSE d \in AlignedDates(w, dl) :
                         \A e \in AlignedDates(w, dl) : e <= d))

\* manual override (if > 0), else the realtime quote, else the last close.
ByPriority(manual, realtime, last_close) ==
  IF manual > 0 THEN manual
  ELSE IF realtime # None THEN realtime[1]
  ELSE last_close

\* The same, a realtime quote of 0 counting as unavailable.
ByPriorityNonZero(manual, realtime, last_close) ==
  IF manual > 0 THEN manual
  ELSE IF realtime # None /\ realtime[1] # 0 THEN realtime[1]
  ELSE last_close

\* C1, as stated: the current reference price and the current proxy price are
\* each resolved as manual override (if > 0), else realtime quote, else last
\* historical close.
C1_PriorityAsStated ==
  Predicted =>
    /\ ret.value.current_btc_price =
         ByPriority(op.manual_current_btc, op.realtime_btc,
                    LastClose(op.world.shapes.btc, op.world, op.download))
    /\ ret.value.current_stock_price =
         ByPriority(op.manual_current_stock, op.realtime_stock,
                    LastClose(op.world.shapes.stock, op.world, op.download))

\* C1, amended: the current reference price and the current proxy price are
\* each resolved, independently, as manual override (if > 0), else the
\* realtime quote if one is available and is not 0, else the last historical
\* close.
C1_Priority ==
  Predicted =>
    /\ ret.value.current_btc_price =
         ByPriorityNonZero(op.manual_current_btc, op.realtime_btc,
                           LastClose(op.world.shapes.btc, op.world, op.download))
    /\ ret.value.current_stock_price =
         ByPriorityNonZero(op.manual_current_stock, op.realtime_stock,
                           LastClose(op.world.shapes.stock, op.world, op.download))

\* The example of C1, scaled: manual 8, realtime 16, last close 32 resolve to
\* 8, while the proxy price, with no override and no quote, is its last close.
C1_Witness ==
  /\ Predicted
  /\ op.manual_current_btc = 8 /\ op.realtime_btc = Some(16)
  /\ LastClose(op.world.shapes.btc, op.world, op.download) = 32
  /\ ret.value.current_btc_price = 8
  /\ op.manual_current_stock = 0 /\ op.realtime_stock = None
  /\ ret.value.current_stock_price =
       LastClose(op.world.shapes.stock, op.world, op.download)

\* C2: predict_price never raises; it returns the InsufficientData sentinel
\* exactly when the aligned series has fewer than 10 rows (none included),
\* and a PredictionResult for every other series and every input.
C2_OnlyInsufficientDataAborts ==
  Predicting =>
    /\ ret.kind = "return"
    /\ ret.value.type \in {"None", "PredictionResult"}
    /\ ret.value.type = "None"
         <=> Cardinality(AlignedDates(op.world, op.download)) < 10

\* A series of exactly 10 aligned rows out of 11 downloaded gives a result,
\* with a target below 0 and both overrides absent.
C2_Witness ==
  /\ Predicted
  /\ op.world.rows = 11
  /\ Cardinality(AlignedDates(op.world, op.download)) = 10
  /\ op.target_btc_price < 0
  /\ op.manual_current_btc <= 0 /\ op.manual_current_stock <= 0

\* The sign of the reported correlation (-1 if neg else 1) * sqrt(sq).
CorrelationSign(c) == IF c.sq[1] = 0 THEN 0 ELSE IF c.neg THEN -1 ELSE 1

\* C3: the reported correlation is sign(beta) * sqrt(R^2) of the return
\* regression: it has the sign of beta, its square is R^2, and it is 0 when
\* beta is 0.
C3_CorrelationIsSignedRootOfR2 ==
  Predicted =>
    /\ CorrelationSign(ret.value.correlation) = RSign(ret.value.beta)
    /\ ret.value.correlation.sq = ReturnModel(op.data).score
    /\ (ret.value.beta[1] = 0 => CorrelationSign(ret.value.correlation) = 0)

\* C4: when the target equals the resolved current reference price, the
\* beta-model prediction is the current proxy price times the multiplier.
C4_ZeroReturn ==
  (Predicted /\ op.target_btc_price = ret.value.current_btc_price) =>
    ret.value.predicted_stock_price_beta =
      RMul(Int2Rat(ret.value.current_stock_price), op.event_impact_multiplier)

\* The case of C4 with a beta that is neither 0 nor 1 and a multiplier
\* that is not 1.
C4_Witness ==
  /\ Predicted
  /\ op.target_btc_price = ret.value.current_btc_price
  /\ ret.value.beta = <<2, 1>>
  /\ op.event_impact_multiplier = <<17, 20>>
  /\ ret.value.predicted_stock_price_beta # Int2Rat(ret.value.current_stock_price)

\* C5: for a target of 0 or less the power-law prediction is exactly 0,
\* whatever the series and the multiplier, and the log-log regression is not
\* evaluated.
C5_PowerLawSentinel ==
  (Predicted /\ op.target_btc_price <= 0) =>
    /\ ret.value.predicted_stock_price_power_law.coef = Int2Rat(0)
    /\ ~ret.value.predicted_stock_price_power_law.fitted

\* The case of C5 at target 0 with a multiplier that is not 1, next to
\* which the beta model still gives a price.
C5_Witness ==
  /\ Predicted
  /\ op.target_btc_price = 0
  /\ op.event_impact_multiplier = <<17, 20>>
  /\ ret.value.predicted_stock_price_power_law.coef = Int2Rat(0)
  /\ ret.value.predicted_stock_price_beta # Int2Rat(0)

-----------------------------------------------------------------------------
(* Properties of the gateway, under SpecGateway.                           *)

\* A quote tier failed: network error, a status that is not 200, or a body
\* from which no price can be read.
HttpFailed(r) == r.raises \/ r.status # 200 \/ r.price = None

YfCalls == {"yf.fast_info", "yf.history"}

\* The general-purpose provider gave no price.
YfFailed(yf) ==
  \/ yf.fast = "raise"
  \/ /\ ~(yf.fast = "present" /\ yf.last_price # None /\ yf.last_price[1] # 0)
     /\ yf.hist # "rows"

IsCall(i, names) == i <= Len(calls) /\ calls[i] \in names

OptionalPrice(v) == v = None \/ (Len(v) = 1 /\ v[1] \in Int)

\* C6: get_realtime_btc_price asks the spot-price API first; when that fails
\* it goes on to the general-purpose provider, and when that fails too it
\* returns None; it never raises.
C6_BtcChain ==
  op.name = "get_realtime_btc_price" =>
    /\ ret.kind = "return" /\ OptionalPrice(ret.value)
    /\ IsCall(1, {"binance"})
    /\ ~HttpFailed(op.binance) => (ret.value = op.binance.price /\ Len(calls) = 1)
    /\ HttpFailed(op.binance) =>
         /\ IsCall(2, YfCalls)
         /\ \A i \in 2..Len(calls) : calls[i] \in YfCalls
         /\ ret.value \in {None, op.yf.last_price, op.yf.close}
         /\ YfFailed(op.yf) => ret.value = None
         /\ ~YfFailed(op.yf) => ret.value # None

\* A malformed body of the spot-price API, and the price of the
\* general-purpose provider returned.
C6_Witness ==
  /\ op.name = "get_realtime_btc_price"
  /\ ~op.binance.raises /\ op.binance.status = 200 /\ op.binance.price = None
  /\ calls = <<"binance", "yf.fast_info">>
  /\ ret.value = Some(32)

\* C7: get_realtime_stock_price asks the low-latency provider, first, if and
\* only if a key is configured when it is called; without a key, or when
\* that provider fails, the general-purpose provider answers; the result is
\* a price or None.
C7_StockChain ==
  op.name = "get_realtime_stock_price" =>
    /\ ret.kind = "return" /\ OptionalPrice(ret.value)
    /\ (\E i \in 1..Len(calls) : calls[i] = "finnhub") <=> FINNHUB_API_KEY # ""
    /\ FINNHUB_API_KEY # "" => IsCall(1, {"finnhub"})
    /\ \A i \in 2..Len(calls) : calls[i] \in YfCalls
    /\ (FINNHUB_API_KEY # "" /\ ~HttpFailed(op.finnhub)) =>
         (ret.value = op.finnhub.price /\ Len(calls) = 1)
    /\ (FINNHUB_API_KEY = "" \/ HttpFailed(op.finnhub)) =>
         /\ \E i \in 1..Len(calls) : calls[i] \in YfCalls
         /\ ret.value \in {None, op.yf.last_price, op.yf.close}
         /\ YfFailed(op.yf) <=> ret.value = None

\* No key configured, a low-latency provider that would have answered, and
\* the general-purpose provider's price returned without asking it.
C7_Witness ==
  /\ op.name = "get_realtime_stock_price"
  /\ FINNHUB_API_KEY = "" /\ ~HttpFailed(op.finnhub)
  /\ calls = <<"yf.fast_info">>
  /\ ret.value = Some(32)

ExtendedStockCall ==
  op.name = "get_extended_stock_info" /\ op.ticker # "BTC-USD"

\* At 09:30:00 on a weekday OPEN, at 09:29:59 on a weekday PRE, at any time
\* of a Saturday or Sunday CLOSED.
BoundaryStates ==
  /\ (op.now.weekday < 5 /\ op.now.time = HMS(9, 30, 0)) =>
       ret.value.market_state = "OPEN"
  /\ (op.now.weekday < 5 /\ op.now.time = HMS(9, 29, 59)) =>
       ret.value.market_state = "PRE"
  /\ op.now.weekday >= 5 => ret.value.market_state = "CLOSED"

\* C8, as stated: for a non-reference ticker the reported market state is
\* OPEN at 09:30:00 on a weekday, PRE at 09:29:59 on a weekday, and CLOSED at
\* every time of a Saturday or Sunday.
C8_BoundariesAsStated ==
  ExtendedStockCall => (ret.kind = "return" /\ BoundaryStates)

\* The upstream provider reports one of the states the code takes over.
UpstreamStateGiven(info) ==
  /\ ~info.raises
  /\ info.marketState # None
  /\ info.marketState[1] \in {"REGULAR", "PRE", "POST", "CLOSED"}

\* C8, amended: for a non-reference ticker whose lookup does not fail and
\* for which the upstream provider reports none of the states REGULAR, PRE,
\* POST, CLOSED (or its info cannot be read), the reported market state is
\* OPEN at 09:30:00 on a weekday, PRE at 09:29:59 on a weekday, and CLOSED at
\* every time of a Saturday or Sunday.
C8_Boundaries ==
  (ExtendedStockCall /\ ~op.ctor_raises /\ ~UpstreamStateGiven(op.info)) =>
    (ret.kind = "return" /\ BoundaryStates)

\* 09:30:00 on a Monday with an upstream state the code does not map: OPEN.
C8_Witness ==
  /\ ExtendedStockCall /\ ~op.ctor_raises
  /\ ~op.info.raises /\ op.info.marketState = Some("PREPRE")
  /\ op.now = [weekday |-> 0, time |-> HMS(9, 30, 0)]
  /\ ret.value.market_state = "OPEN"

\* Something failed inside the call: the ticker lookup, the quote info, the
\* price lookup of the fall-back, or the 24h statistics.
ExtendedFailure ==
  IF op.ticker = "BTC-USD"
    THEN op.stats.raises \/ op.stats.status # 200 \/ op.stats.lastPrice = None
         \/ op.stats.prevClosePrice = None
  ELSE op.ctor_raises \/ op.info.raises

\* C9, as stated: any failure inside get_extended_stock_info gives price null
\* and market state CLOSED, and the operation never raises.
C9_DegradesAsStated ==
  op.name = "get_extended_stock_info" =>
    /\ ret.kind = "return"
    /\ ExtendedFailure =>
         (ret.value.price = None /\ ret.value.market_state = "CLOSED")

\* C9, amended: get_extended_stock_info never raises and always returns a
\* price (or null) and one of the four market states.  A failing ticker
\* lookup gives price null and CLOSED.  A failure of the 24h statistics gives
\* the price of the realtime chain, null when that has none, and OPEN.  A
\* failure of the quote info gives the price of the general-purpose provider,
\* null when that has none, and the market state of the time windows.
C9_Degrades ==
  op.name = "get_extended_stock_info" =>
    /\ ret.kind = "return"
    /\ OptionalPrice(ret.value.price)
    /\ ret.value.market_state \in {"OPEN", "PRE", "POST", "CLOSED"}
    /\ IF op.ticker = "BTC-USD"
         THEN /\ ret.value.market_state = "OPEN"
              /\ ExtendedFailure =>
                   /\ ret.value.previous_close = None
                   /\ IF ~HttpFailed(op.binance) THEN ret.value.price = op.binance.price
                      ELSE ret.value.price = None <=> YfFailed(op.yf)
       ELSE /\ op.ctor_raises =>
                 (ret.value.price = None /\ ret.value.market_state = "CLOSED")
            /\ (~op.ctor_raises /\ op.info.raises) =>
                 /\ ret.value.price = None <=> YfFailed(op.yf)
                 /\ ret.value.price \in {None, op.yf.last_price, op.yf.close}
                 /\ ret.value.market_state = TimeWindowState(op.now)

\* The quote info cannot be read at noon on a Monday and the fall-back has
\* no price either: price null, yet OPEN.
C9_Witness ==
  /\ ExtendedStockCall /\ ~op.ctor_raises /\ op.info.raises
  /\ op.now = [weekday |-> 0, time |-> HMS(12, 0, 0)]
  /\ YfFailed(op.yf)
  /\ ret.value.price = None /\ ret.value.market_state = "OPEN"

\* C10, as stated: get_historical_data returns the empty series whenever
\* fewer than 10 aligned rows remain, and every non-empty series it returns
\* has at least 10 rows.
C10_MinimumAsStated ==
  op.name = "get_historical_data" =>
    /\ ret.kind = "return"
    /\ Cardinality(AlignedDates(op.world, op.download)) < 10 => ret.value = << >>
    /\ ret.value # << >> => Len(ret.value) >= 10

\* C10, amended: get_historical_data never raises; it returns the empty
\* series when a download raises, and otherwise exactly the rows, in date
\* order, of the dates on which both series have a value, however few: a
\* non-empty series it returns may have fewer than 10 rows.
C10_AlignedRows ==
  op.name = "get_historical_data" =>
    /\ ret.kind = "return"
    /\ {ret.value[i].date : i \in 1..Len(ret.value)}
         = AlignedDates(op.world, op.download)
    /\ Len(ret.value) = Cardinality(AlignedDates(op.world, op.download))
    /\ \A i \in 1..Len(ret.value) :
         /\ ret.value[i].stock =
              Some(Pow2(LogClose(op.world.shapes.stock, ret.value[i].date)))
         /\ ret.value[i].btc =
              Some(Pow2(LogClose(op.world.shapes.btc, ret.value[i].date)))
         /\ i > 1 => ret.value[i - 1].date < ret.value[i].date

\* Eleven downloaded rows of which nine are aligned: a non-empty series of
\* nine rows is returned.
C10_Witness ==
  /\ op.name = "get_historical_data"
  /\ op.world.rows = 11
  /\ op.download.batch = "no_columns"
  /\ Len(ret.value) = 9

-----------------------------------------------------------------------------
(* Texts, news items and social posts.                                     *)
(*                                                                         *)
(* A text is a sequence of tokens: the whitespace token " ", the full stop *)
(* "." and words.  Of an item only the fields the sentiment engine reads   *)
(* or that tell one item from another are kept; link, provider, author,    *)
(* url, date, likes and retweets are copied through unchanged by the code  *)
(* and are left out.                                                       *)

Words == {"moon", "rally", "dip", "meh", "okay", "glitch"}

RECURSIVE lstrip(_)
lstrip(text) ==
  IF text # << >> /\ Head(text) = " " THEN lstrip(Tail(text)) ELSE text

RECURSIVE rstrip(_)
rstrip(text) ==
  IF text # << >> /\ text[Len(text)] = " "
    THEN rstrip(SubSeq(text, 1, Len(text) - 1))
  ELSE text

\* str.strip()
strip(text) == rstrip(lstrip(text))

\* The texts a title, a summary or a post may hold.
Texts == {<< >>, <<" ">>} \cup {<<word>> : word \in Words}

NewsItem(title, summary) ==
  [type |-> "news", title |-> title, summary |-> summary]

SocialPost(id, content, platform) ==
  [type |-> "social", id |-> id, content |-> content, platform |-> platform]

-----------------------------------------------------------------------------
(* MarketDataProvider.get_news                                             *)

\* One raw item of t.news: the current structure (a "content" dictionary
\* with title and summary), the former structure (title on the item itself,
\* no summary), or a malformed one (not a dictionary, or a field of a type
\* NewsItem rejects), on which building the NewsItem raises.
RawNews ==
  [shape : {"nested"}, title : {<<"moon">>, << >>}, summary : {None, Some(<<"dip">>)}]
  \cup [shape : {"flat"}, title : {<<"okay">>}, summary : {None}]
  \cup [shape : {"malformed"}, title : {<< >>}, summary : {None}]

\* content.get("summary", ""): the former structure has no summary.
RawSummary(raw) ==
  IF raw.shape = "flat" THEN Some(<< >>) ELSE raw.summary

ParsedNews(raw) == NewsItem(raw.title, RawSummary(raw))

MaxNews == 3

\* What the news provider answers: the lookup raises, or a list of raw items.
NewsResponses ==
  [raises : {TRUE}, raw_news : {<< >>}]
  \cup [raises : {FALSE},
        raw_news : UNION {[1..n -> RawNews] : n \in 0..MaxNews}]

\* One try block around the whole loop: an exception on any item is caught
\* outside the loop, and the items built so far are dropped with it.
get_news(news) ==
  IF news.raises THEN << >>
  ELSE IF \E i \in 1..Len(news.raw_news) : news.raw_news[i].shape = "malformed"
    THEN << >>
  ELSE [i \in 1..Len(news.raw_news) |-> ParsedNews(news.raw_news[i])]

-----------------------------------------------------------------------------
(* XApiProvider.get_posts                                                  *)

\* One tweet of the search response; on a malformed one (not a dictionary,
\* no id, no created_at) building the SocialPost raises.
Tweets == [malformed : BOOLEAN, text : {<<"moon">>, <<" ">>}]

MaxTweets == 3

\* The recent-search request: it raises, or answers with a status and a body
\* that is no JSON, JSON without "data", or JSON with a list of tweets.
XResponses ==
  [raises : {TRUE}, status : {200}, body : {"no_json"}, data : {<< >>}]
  \cup [raises : {FALSE}, status : {200, 429}, body : {"no_json", "no_data"},
        data : {<< >>}]
  \cup [raises : {FALSE}, status : {200, 429}, body : {"data"},
        data : UNION {[1..n -> Tweets] : n \in 0..MaxTweets}]

\* The templates random.choice draws the content of a mock post from.
MockTemplates == [a |-> <<"moon">>, b |-> <<"dip">>]

\* The draws of random.choice for one batch of mock posts: the same template
\* throughout, or the two in turn.
MockDraws == {"a", "b", "ab", "ba"}

DrawAt(draws, i) ==
  CASE draws = "a" -> MockTemplates.a
    [] draws = "b" -> MockTemplates.b
    [] draws = "ab" -> IF i % 2 = 0 THEN MockTemplates.a ELSE MockTemplates.b
    [] draws = "ba" -> IF i % 2 = 0 THEN MockTemplates.b ELSE MockTemplates.a

\* _get_mock_posts with the platform of a real post.
_get_mock_posts_Unmarked(limit, draws) ==
  [k \in 1..limit |-> SocialPost(k - 1, DrawAt(draws, k - 1), "X")]

\* for i in range(limit): SocialPost(id=str(i), ..., platform="X (Simulated)")
_get_mock_posts(limit, draws) ==
  [k \in 1..limit |-> SocialPost(k - 1, DrawAt(draws, k - 1), "X (Simulated)")]

\* The posts built from the tweets of a response, malformed ones skipped.
ParsedTweets(data) ==
  LET good == SelectSeq([k \in 1..Len(data) |-> [id |-> k, tweet |-> data[k]]],
                        LAMBDA t : ~t.tweet.malformed)
  IN [k \in 1..Len(good) |-> SocialPost(good[k].id, good[k].tweet.text, "X")]

\* posts[:limit]
Prefix(seq, limit) ==
  IF limit <= 0 THEN << >>
  ELSE IF Len(seq) <= limit THEN seq
  ELSE SubSeq(seq, 1, limit)

\* get_posts filling a short answer of the API up to the limit with mock posts.
get_posts_Padded(bearer_token, limit, x, draws) ==
  IF bearer_token = "" THEN _get_mock_posts(limit, draws)
  ELSE IF x.raises THEN _get_mock_posts(limit, draws)
  ELSE IF x.status # 200 THEN _get_mock_posts(limit, draws)
  ELSE IF x.body = "no_json" THEN _get_mock_posts(limit, draws)
  ELSE IF x.body = "no_data" THEN _get_mock_posts(limit, draws)
  ELSE Prefix(ParsedTweets(x.data) \o _get_mock_posts(limit, draws), limit)

get_posts(bearer_token, limit, x, draws) ==
  IF bearer_token = "" THEN _get_mock_posts(limit, draws)
  ELSE IF x.raises THEN _get_mock_posts(limit, draws)
  ELSE IF x.status # 200 THEN _get_mock_posts(limit, draws)
  ELSE IF x.body = "no_json" THEN _get_mock_posts(limit, draws)
  ELSE IF x.body = "no_data" THEN << >>
  ELSE Prefix(ParsedTweets(x.data), limit)

-----------------------------------------------------------------------------
(* SentimentAnalyzer.  Scores are rationals; the answers of the two        *)
(* scoring libraries are tables over the words of this model, in           *)
(* hundredths.                                                             *)

\* a >= b for rationals.
RGeq(a, b) == a[1] * b[2] >= b[1] * a[2]
RGt(a, b) == a[1] * b[2] > b[1] * a[2]

Hundredths(n) == Rat(n, 100)

\* The valence the VADER lexicon gives a token.
Valence(token) ==
  CASE token = "moon" -> 80
    [] token = "rally" -> 50
    [] token = "dip" -> -20
    [] token = "meh" -> 3
    [] token = "okay" -> 5
    [] token = "glitch" -> -50
    [] OTHER -> 0

Clamp(n) == IF n > 100 THEN 100 ELSE IF n < -100 THEN -100 ELSE n

\* vader_analyzer.polarity_scores(text)["compound"], in hundredths.
polarity_scores(text) ==
  Clamp(Sigma(Len(text), [i \in 1..Len(text) |-> Valence(text[i])]))

\* finbert_pipeline(text[:512])[0]: it raises, or answers with a label and a
\* confidence in hundredths.
finbert(text) ==
  IF \E i \in 1..Len(text) : text[i] = "glitch" THEN [raises |-> TRUE]
  ELSE IF polarity_scores(text) >= 50
    THEN [raises |-> FALSE, label |-> "positive", score |-> 90]
  ELSE IF polarity_scores(text) <= -20
    THEN [raises |-> FALSE, label |-> "negative", score |-> 60]
  ELSE [raises |-> FALSE, label |-> "neutral", score |-> 70]

_analyze_vader(text) ==
  IF polarity_scores(text) >= 5
    THEN [score |-> Hundredths(polarity_scores(text)), label |-> "Bullish"]
  ELSE IF polarity_scores(text) <= -5
    THEN [score |-> Hundredths(polarity_scores(text)), label |-> "Bearish"]
  ELSE [score |-> Int2Rat(0), label |-> "Neutral"]

\* _get_label_from_score with the upper bands inclusive at the wrong end.
_get_label_from_score_Shifted(score) ==
  IF RGt(score, Rat(1, 10))
    THEN IF RGeq(score, Rat(1, 2)) THEN "Very Bullish" ELSE "Bullish"
  ELSE IF RGt(Rat(-1, 10), score)
    THEN IF RGeq(Rat(-1, 2), score) THEN "Very Bearish" ELSE "Bearish"
  ELSE "Neutral"

_get_label_from_score(score) ==
  IF RGeq(score, Rat(1, 10))
    THEN IF RGt(Rat(1, 2), score) THEN "Bullish" ELSE "Very Bullish"
  ELSE IF RGeq(Rat(-1, 10), score)
    THEN IF RGt(score, Rat(-1, 2)) THEN "Bearish" ELSE "Very Bearish"
  ELSE "Neutral"

\* The scoring text of an item: f"{item.title}. {item.summary or ''}" for a
\* news item, the content for a social post.
ScoringText(item) ==
  IF item.type = "news"
    THEN item.title \o <<".", " ">>
         \o (IF item.summary = None THEN << >> ELSE item.summary[1])
  ELSE item.content

\* ScoreWith where an item FinBERT raises on is scored 0, Neutral.
ScoreWith_NoFallback(pipeline, bert, text) ==
  IF pipeline
    THEN IF bert.raises THEN [score |-> Int2Rat(0), label |-> "Neutral"]
         ELSE IF bert.label = "positive"
           THEN [score |-> Hundredths(bert.score), label |-> "Bullish"]
         ELSE IF bert.label = "negative"
           THEN [score |-> Hundredths(-bert.score), label |-> "Bearish"]
         ELSE [score |-> Int2Rat(0), label |-> "Neutral"]
  ELSE _analyze_vader(text)

\* The score and the label of one text: FinBERT when the pipeline is loaded,
\* VADER otherwise and when FinBERT raises.
ScoreWith(pipeline, bert, text) ==
  IF pipeline /\ ~bert.raises
    THEN IF bert.label = "positive"
           THEN [score |-> Hundredths(bert.score), label |-> "Bullish"]
         ELSE IF bert.label = "negative"
           THEN [score |-> Hundredths(-bert.score), label |-> "Bearish"]
         ELSE [score |-> Int2Rat(0), label |-> "Neutral"]
  ELSE _analyze_vader(text)

Score(pipeline, text) == ScoreWith(pipeline, finbert(text), text)

\* item_data with the platform of a real post.
ItemData_NoMarker(item, scored) ==
  IF item.type = "news"
    THEN [sentiment |-> scored.label, score |-> scored.score,
          title |-> item.title, type |-> "news"]
  ELSE [sentiment |-> scored.label, score |-> scored.score,
        content |-> item.content, platform |-> "X", type |-> "social"]

\* item_data of one scored item.
ItemData(item, scored) ==
  IF item.type = "news"
    THEN [sentiment |-> scored.label, score |-> scored.score,
          title |-> item.title, type |-> "news"]
  ELSE [sentiment |-> scored.label, score |-> scored.score,
        content |-> item.content, platform |-> item.platform, type |-> "social"]

SentimentResult(score, label, analyzed_items) ==
  [score |-> score, label |-> label, analyzed_items |-> analyzed_items]

\* The sum of the scores in place of their mean.
Mean_Sum(scores) ==
  Rat(Sigma(Len(scores), [i \in 1..Len(scores) |-> scores[i][1] * (100 \div scores[i][2])]),
      100)

\* np.mean(scores)
Mean(scores) ==
  IF Len(scores) = 0 THEN Int2Rat(0)
  ELSE Rat(Sigma(Len(scores), [i \in 1..Len(scores) |-> scores[i][1] * (100 \div scores[i][2])]),
           100 * Len(scores))

\* The result of analyze from the items it scores.
Aggregate(pipeline, scored) ==
  IF scored = << >> THEN SentimentResult(Int2Rat(0), "Neutral", << >>)
  ELSE LET data == [i \in 1..Len(scored) |->
                      ItemData(scored[i], Score(pipeline, ScoringText(scored[i])))]
           avg_score == Mean([i \in 1..Len(data) |-> data[i].score])
       IN SentimentResult(avg_score, _get_label_from_score(avg_score), data)

analyze(pipeline, items) ==
  Aggregate(pipeline, SelectSeq(items, LAMBDA item : strip(ScoringText(item)) # << >>))

-----------------------------------------------------------------------------
(* PredictionService._analyze_price_trend                                  *)

\* The trend needs this many rows.
TrendRows == 50

\* The daily closes of the proxy the trend is read from: level, rising or
\* falling by one a day, falling with a jump on the last day, rising with a
\* drop on the last day.
TrendClose(shape, rows, i) ==
  CASE shape = "level" -> 100
    [] shape = "rising" -> 100 + i
    [] shape = "falling" -> 200 - i
    [] shape = "rebound" -> IF i = rows THEN 215 - i ELSE 200 - i
    [] shape = "pullback" -> IF i = rows THEN 85 + i ELSE 100 + i

TrendWorlds ==
  [rows : (TrendRows - 1)..(TrendRows + 1),
   shape : {"level", "rising", "falling", "rebound", "pullback"}]

TrendStock(w) ==
  [i \in 1..w.rows |-> [date |-> i, close |-> TrendClose(w.shape, w.rows, i)]]
TrendBtc(w) == [i \in 1..w.rows |-> [date |-> i, close |-> 64]]

\* prices.rolling(window).mean().iloc[-1], times window.
RollingSum(data, window) ==
  Sigma(window, [k \in 1..window |-> data[Len(data) - window + k].stock[1]])

TrendLabel(score) ==
  IF RGeq(score, Rat(1, 2)) THEN "Bullish"
  ELSE IF RGeq(Rat(-1, 2), score) THEN "Bearish"
  ELSE "Neutral"

\* TrendScore with ties counted as +0.5.
TrendScore_TiesUp(current_price, sum_20, sum_50) ==
  RAdd(IF 20 * current_price >= sum_20 THEN Rat(1, 2) ELSE Rat(-1, 2),
       IF 50 * sum_20 >= 20 * sum_50 THEN Rat(1, 2) ELSE Rat(-1, 2))

TrendScore(current_price, sum_20, sum_50) ==
  RAdd(IF 20 * current_price > sum_20 THEN Rat(1, 2) ELSE Rat(-1, 2),
       IF 50 * sum_20 > 20 * sum_50 THEN Rat(1, 2) ELSE Rat(-1, 2))

\* The body of the try block, on the frame the history provider returned.
TrendOf(data) ==
  IF data = << >> \/ Len(data) < TrendRows
    THEN [label |-> "Neutral", score |-> Int2Rat(0)]
  ELSE LET score == TrendScore(LastRow(data).stock[1], RollingSum(data, 20),
                               RollingSum(data, 50))
       IN [label |-> TrendLabel(score), score |-> score]

\* historical is the outcome of get_historical_data; an exception inside the
\* try block gives the neutral trend.
_analyze_price_trend(historical) ==
  IF historical.kind = "raise" THEN [label |-> "Neutral", score |-> Int2Rat(0)]
  ELSE TrendOf(historical.value)

-----------------------------------------------------------------------------
(* PredictionService.get_market_sentiment                                  *)

\* The fields SentimentResult declares.
SentimentResultFields == {"score", "label", "analyzed_items"}

\* BaseModel(**kwargs) of a model that sets no `extra` policy: a keyword
\* that is no declared field is ignored, silently.
BaseModel(fields, kwargs) == [f \in (DOMAIN kwargs) \cap fields |-> kwargs[f]]

\* The fusion weighting the trend alone.
CompositeScore_TrendOnly(sentiment_score, trend_score) == trend_score

CompositeScore(sentiment_score, trend_score) ==
  RAdd(RMul(sentiment_score, Rat(1, 2)), RMul(trend_score, Rat(1, 2)))

CompositeLabel(composite_score) ==
  IF RGt(composite_score, Rat(1, 5)) THEN "Bullish"
  ELSE IF RGt(Rat(-1, 5), composite_score) THEN "Bearish"
  ELSE "Neutral"

\* The limit get_market_sentiment asks the social provider for.
PostsLimit == 10

\* The items a sentiment request gathers: the news, then the posts of the
\* social provider when there is one.
GatheredItems(provider, news_items, posts) ==
  IF provider = None THEN news_items ELSE news_items \o posts

\* The values computed by one call, and the object built from them.
Fusion(base_result, trend_data, composite_score) ==
  [base_result |-> base_result, trend_data |-> trend_data,
   composite_score |-> composite_score,
   composite_label |-> CompositeLabel(composite_score),
   result |-> BaseModel(SentimentResultFields,
                [score |-> base_result.score, label |-> base_result.label,
                 trend_score |-> trend_data.score,
                 trend_label |-> trend_data.label,
                 composite_score |-> composite_score,
                 composite_label |-> CompositeLabel(composite_score),
                 analyzed_items |-> base_result.analyzed_items])]

get_market_sentiment(base_result, trend_data) ==
  Fusion(base_result, trend_data,
         CompositeScore(base_result.score, trend_data.score))

-----------------------------------------------------------------------------
(* Actions of the sentiment engine and of the facade.                      *)

\* settings.USE_TRANSFORMERS, read once when the analyzer is built.
USE_TRANSFORMERS == BOOLEAN

\* What importing transformers and building the pipeline does: it succeeds,
\* the import fails, or anything else fails.
LoadOutcomes == {"ok", "ImportError", "Exception"}

\* _load_finbert that tries a second time after a failure.
_load_finbert_Retrying(load) ==
  IF load = "ok" THEN [finbert_pipeline |-> TRUE, finbert_loads |-> <<load>>]
  ELSE [finbert_pipeline |-> TRUE, finbert_loads |-> <<load, "ok">>]

\* _load_finbert: one attempt; both kinds of failure are logged and leave
\* the pipeline None.
_load_finbert(load) ==
  [finbert_pipeline |-> load = "ok", finbert_loads |-> <<load>>]

\* SentimentAnalyzer.__init__
SentimentAnalyzer__init__(use_transformers, load) ==
  IF use_transformers THEN _load_finbert(load)
  ELSE [finbert_pipeline |-> FALSE, finbert_loads |-> << >>]

\* The wirings a process may run with: no social provider, an XApiProvider
\* built with or without a bearer token; FinBERT not asked for, loaded, or
\* failed to load.
InitService ==
  /\ FINNHUB_API_KEY = ""
  /\ social_media_provider \in {None, Some([bearer_token |-> ""]),
                                Some([bearer_token |-> "token"])}
  /\ \E use_transformers \in USE_TRANSFORMERS, load \in LoadOutcomes :
       /\ finbert_pipeline
            = SentimentAnalyzer__init__(use_transformers, load).finbert_pipeline
       /\ finbert_loads
            = SentimentAnalyzer__init__(use_transformers, load).finbert_loads
  /\ op = [name |-> "idle"]
  /\ calls = << >>
  /\ ret = NoResult

GetNews ==
  /\ Idle
  /\ \E ticker \in Tickers \ {"BTC-USD"}, news \in NewsResponses :
       /\ op' = [name |-> "get_news", ticker |-> ticker, news |-> news]
       /\ calls' = <<"yf.Ticker", "yf.news">>
       /\ ret' = Returned(get_news(news))
       /\ UNCHANGED <<FINNHUB_API_KEY, wiring>>

Limits == {0, 2, PostsLimit}

GetPosts ==
  /\ Idle
  /\ social_media_provider # None
  /\ \E limit \in Limits, x \in XResponses, draws \in MockDraws :
       /\ op' = [name |-> "get_posts", limit |-> limit, x |-> x, draws |-> draws,
                 bearer_token |-> social_media_provider[1].bearer_token]
       /\ calls' = IF social_media_provider[1].bearer_token = "" THEN << >>
                   ELSE <<"requests.get">>
       /\ ret' = Returned(get_posts(social_media_provider[1].bearer_token,
                                    limit, x, draws))
       /\ UNCHANGED <<FINNHUB_API_KEY, wiring>>

\* The items analyze is called with.
ItemPool ==
  {NewsItem(<< >>, None), NewsItem(<<" ">>, Some(<<" ">>)),
   NewsItem(<<"moon">>, Some(<< >>)), NewsItem(<<"dip">>, None),
   SocialPost(1, << >>, "X"), SocialPost(2, <<" ">>, "X"),
   SocialPost(3, <<"meh">>, "X"), SocialPost(4, <<"glitch">>, "X (Simulated)"),
   SocialPost(5, <<"moon">>, "X (Simulated)"), SocialPost(6, <<"okay">>, "X"),
   SocialPost(7, <<"rally">>, "X")}

MaxItems == 3

Analyze ==
  /\ Idle
  /\ \E items \in UNION {[1..n -> ItemPool] : n \in 0..MaxItems} :
       /\ op' = [name |-> "analyze", items |-> items]
       /\ calls' = << >>
       /\ ret' = Returned(analyze(finbert_pipeline, items))
       /\ UNCHANGED <<FINNHUB_API_KEY, wiring>>

\* The provider answers a sentiment request is run against.
SentimentNews == {news \in NewsResponses : Len(news.raw_news) <= 1}
SentimentX ==
  {x \in XResponses :
     \/ x.raises
     \/ x.status = 429 /\ x.body = "no_data"
     \/ x.status = 200 /\ x.body = "no_data"
     \/ x.status = 200 /\ x.body = "data" /\ Len(x.data) = 1}
SentimentDraws == {"b", "ab"}
SentimentDownload ==
  {dl \in DownloadResponses : ~dl.single_raises /\ dl.batch # "no_columns"}

\* One sentiment request against the answers of the providers.
SentimentWith(ticker, news, x, draws, w, dl, historical, items, f) ==
  /\ op' = [name |-> "get_market_sentiment", ticker |-> ticker, news |-> news,
            x |-> x, draws |-> draws, world |-> w, download |-> dl,
            historical |-> historical, items |-> items, base_result |-> f.base_result,
            trend_data |-> f.trend_data, composite_score |-> f.composite_score,
            composite_label |-> f.composite_label]
  /\ calls' = <<"get_news">>
              \o (IF social_media_provider = None THEN << >> ELSE <<"get_posts">>)
              \o <<"analyze", "get_historical_data">>
  /\ ret' = Returned(f.result)
  /\ UNCHANGED <<FINNHUB_API_KEY, wiring>>

MarketSentiment ==
  /\ Idle
  /\ \E ticker \in Tickers \ {"BTC-USD"}, w \in TrendWorlds, dl \in SentimentDownload :
       \E historical \in {get_historical_data(dl, TrendStock(w), TrendBtc(w)).out} :
         \E trend_data \in {_analyze_price_trend(historical)} :
           \E news \in SentimentNews, x \in SentimentX, draws \in SentimentDraws :
             \E items \in {GatheredItems(social_media_provider, get_news(news),
                             IF social_media_provider = None THEN << >>
                             ELSE get_posts(social_media_provider[1].bearer_token,
                                            PostsLimit, x, draws))} :
               SentimentWith(ticker, news, x, draws, w, dl, historical, items,
                             get_market_sentiment(analyze(finbert_pipeline, items),
                                                  trend_data))

\* The provider answers a prediction is run against when providers fail.  An
\* exception of the history provider is not handled by predict_price and
\* leaves it.
FailingBinance == {r \in HttpResponses : r.price # Some(0)}
FailingYf == {yf \in YfResponses : yf.last_price = None /\ yf.hist # "empty"}
FailingWorlds ==
  {w \in Worlds : w.rows \in {0, MinRows} /\ w.holes.btc = {}
                  /\ w.shapes = [btc |-> "zig", stock |-> "zig2"]}

PredictUnderFailures ==
  /\ Idle
  /\ \E ticker \in Tickers \ {"BTC-USD"}, w \in FailingWorlds, dl \in DownloadResponses :
       \E historical \in {get_historical_data(dl, WorldStock(w), WorldBtc(w)).out} :
         \E binance \in FailingBinance, yf \in FailingYf :
           \E rt_btc \in {get_realtime_btc_price(binance, yf).out.value},
              rt_stock \in {get_realtime_stock_price(
                               FINNHUB_API_KEY, binance, yf).out.value} :
             IF historical.kind = "raise"
               THEN PredictWith(ticker, w, dl, << >>, rt_btc, rt_stock, 16, "Neutral",
                                0, 0, [out |-> Raised, calls |-> <<"get_historical_data">>])
             ELSE PredictWith(ticker, w, dl, historical.value, rt_btc, rt_stock,
                              16, "Neutral", 0, 0,
                              predict_price(historical.value, rt_btc, rt_stock,
                                            16, impact_multipliers("Neutral"), 0, 0))

NextService ==
  \/ GetNews
  \/ GetPosts
  \/ Analyze
  \/ MarketSentiment
  \/ PredictUnderFailures
  \/ Discard

SpecService == InitService /\ [][NextService]_vars

-----------------------------------------------------------------------------
(* Properties of the sentiment engine and of the facade, under SpecService. *)

SentimentCall == op.name = "get_market_sentiment"

CompositeSignalFields ==
  {"score", "label", "trend_score", "trend_label", "composite_score",
   "composite_label"}

\* C11: the object get_market_sentiment returns carries the sentiment score
\* and label, the trend score and label and the composite score and label,
\* the trend and composite values being those computed during the call.
C11_CompositeSignalReturned ==
  SentimentCall =>
    /\ ret.kind = "return"
    /\ CompositeSignalFields \subseteq DOMAIN ret.value
    /\ ret.value.trend_score = op.trend_data.score
    /\ ret.value.trend_label = op.trend_data.label
    /\ ret.value.composite_score = op.composite_score
    /\ ret.value.composite_label = op.composite_label

\* C12: the composite score computed by get_market_sentiment is half the
\* sentiment score plus half the trend score; its label is Bullish iff the
\* score is above 0.2, Bearish iff it is below -0.2, Neutral otherwise; a
\* sentiment of 0.6 with a trend of -0.2 gives 0.2 and Neutral.
C12_Fusion ==
  /\ CompositeScore(Rat(3, 5), Rat(-1, 5)) = Rat(1, 5)
  /\ CompositeLabel(CompositeScore(Rat(3, 5), Rat(-1, 5))) = "Neutral"
  /\ SentimentCall =>
       /\ RMul(Int2Rat(2), op.composite_score)
            = RAdd(op.base_result.score, op.trend_data.score)
       /\ op.composite_label = "Bullish"
            <=> 5 * op.composite_score[1] > op.composite_score[2]
       /\ op.composite_label = "Bearish"
            <=> 5 * op.composite_score[1] < -op.composite_score[2]
       /\ op.composite_label \in {"Bullish", "Bearish", "Neutral"}

\* A sentiment of -0.6 with a trend of 1 gives exactly 0.2, and Neutral.
C12_Witness ==
  /\ SentimentCall
  /\ op.base_result.score = Rat(-3, 5)
  /\ op.trend_data.score = Int2Rat(1)
  /\ op.composite_score = Rat(1, 5)
  /\ op.composite_label = "Neutral"

AnalyzeCall == op.name = "analyze" /\ ret.kind = "return"

\* The per-item scores of the items a result lists.
ItemScores(result) ==
  [i \in 1..Len(result.analyzed_items) |-> result.analyzed_items[i].score]

RECURSIVE RSum(_)
RSum(scores) ==
  IF scores = << >> THEN Int2Rat(0) ELSE RAdd(Head(scores), RSum(Tail(scores)))

\* C13: the overall score analyze returns is the arithmetic mean of the
\* per-item scores of the items it scored, and it is 0 with label Neutral
\* when no item was scored; the per-item scores 0.8, -0.2, 0.0 give 0.2 and
\* Bullish.
C13_MeanOfScored ==
  AnalyzeCall =>
    /\ ItemScores(ret.value) = << >> =>
         (ret.value.score = Int2Rat(0) /\ ret.value.label = "Neutral")
    /\ ItemScores(ret.value) # << >> =>
         RMul(ret.value.score, Int2Rat(Len(ItemScores(ret.value))))
           = RSum(ItemScores(ret.value))
    /\ ItemScores(ret.value) = <<Rat(4, 5), Rat(-1, 5), Int2Rat(0)>> =>
         (ret.value.score = Rat(1, 5) /\ ret.value.label = "Bullish")

\* The scores 0.8, -0.2, 0.0 of three scored items average to 0.2, Bullish.
C13_Witness ==
  /\ AnalyzeCall
  /\ ItemScores(ret.value) = <<Rat(4, 5), Rat(-1, 5), Int2Rat(0)>>
  /\ ret.value.score = Rat(1, 5)
  /\ ret.value.label = "Bullish"

\* Every item of a non-empty input is skipped: score 0, Neutral.
C13_WitnessAllSkipped ==
  /\ AnalyzeCall
  /\ Len(op.items) = 2
  /\ ret.value = SentimentResult(Int2Rat(0), "Neutral", << >>)

\* The label the bands give a score.
BandLabel(score) ==
  CASE 2 * score[1] >= score[2] -> "Very Bullish"
    [] 10 * score[1] >= score[2] /\ 2 * score[1] < score[2] -> "Bullish"
    [] 10 * score[1] > -score[2] /\ 10 * score[1] < score[2] -> "Neutral"
    [] 2 * score[1] > -score[2] /\ 10 * score[1] <= -score[2] -> "Bearish"
    [] 2 * score[1] <= -score[2] -> "Very Bearish"

\* C14: the aggregate label is the band of the aggregate score: 0.5 and above
\* Very Bullish, from 0.1 to below 0.5 Bullish, strictly between -0.1 and 0.1
\* Neutral, above -0.5 up to -0.1 Bearish, -0.5 and below Very Bearish.
C14_LabelBands ==
  AnalyzeCall => ret.value.label = BandLabel(ret.value.score)

\* The boundary scores 0.5, 0.1, -0.1 and -0.5 are reached.
C14_Witness ==
  /\ AnalyzeCall
  /\ ret.value.score = Rat(1, 10)
  /\ ret.value.label = "Bullish"

C14_WitnessUpper ==
  AnalyzeCall /\ ret.value.score = Rat(1, 2) /\ ret.value.label = "Very Bullish"

C14_WitnessLower ==
  AnalyzeCall /\ ret.value.score = Rat(-1, 10) /\ ret.value.label = "Bearish"

C14_WitnessLowest ==
  AnalyzeCall /\ ret.value.score = Rat(-1, 2) /\ ret.value.label = "Very Bearish"

PostsCall == op.name = "get_posts" /\ ret.kind = "return"

\* The platform value that holds the simulated-data marker.
HasMarker(platform) == platform = "X (Simulated)"

\* C15: when no bearer token is configured, and when the real provider is
\* unreachable (the request raises or answers with a status other than 200),
\* every post get_posts returns has the simulated-data marker in its
\* platform.
C15_FallbackIsMarked ==
  (PostsCall /\ (op.bearer_token = "" \/ op.x.raises \/ op.x.status # 200)) =>
    \A i \in 1..Len(ret.value) : HasMarker(ret.value[i].platform)

\* A token is configured, the provider answers 429: ten posts, all marked.
C15_Witness ==
  /\ PostsCall
  /\ op.bearer_token = "token" /\ ~op.x.raises /\ op.x.status = 429
  /\ Len(ret.value) = PostsLimit
  /\ \A i \in 1..Len(ret.value) : HasMarker(ret.value[i].platform)

\* No token is configured: two posts asked for, two marked posts returned.
C15_WitnessNoToken ==
  /\ PostsCall
  /\ op.bearer_token = "" /\ op.limit = 2
  /\ Len(ret.value) = 2
  /\ \A i \in 1..Len(ret.value) : HasMarker(ret.value[i].platform)

\* The text the engine scores of an item is blank.
BlankScoringText(item) == strip(ScoringText(item)) = << >>

\* The items of a request that the engine scores, in order.
ScoredItems(items) == SelectSeq(items, LAMBDA item : ~BlankScoringText(item))

\* C16: for every simulated social post the sentiment engine scores, the
\* corresponding entry of the analyzed items get_market_sentiment returns
\* carries the platform of the post, marker included.
C16_MarkerPropagates ==
  SentimentCall =>
    /\ ret.kind = "return"
    /\ "analyzed_items" \in DOMAIN ret.value
    /\ Len(ret.value.analyzed_items) = Len(ScoredItems(op.items))
    /\ \A i \in 1..Len(ScoredItems(op.items)) :
         (ScoredItems(op.items)[i].type = "social"
          /\ HasMarker(ScoredItems(op.items)[i].platform)) =>
           /\ ret.value.analyzed_items[i].type = "social"
           /\ ret.value.analyzed_items[i].content = ScoredItems(op.items)[i].content
           /\ ret.value.analyzed_items[i].platform = ScoredItems(op.items)[i].platform

\* A news item and ten simulated posts: the eleventh entry is marked.
C16_Witness ==
  /\ SentimentCall
  /\ Len(op.items) = PostsLimit + 1
  /\ op.items[1].type = "news"
  /\ HasMarker(op.items[PostsLimit + 1].platform)
  /\ HasMarker(ret.value.analyzed_items[PostsLimit + 1].platform)

NewsCall == op.name = "get_news" /\ ret.kind = "return"

\* The well-formed raw items of a response, in provider order.
WellFormed(raw_news) == SelectSeq(raw_news, LAMBDA raw : raw.shape # "malformed")

\* C17: a malformed raw news item is skipped by itself: get_news returns one
\* item for every well-formed raw item of the response, in provider order.
C17_MalformedSkipped ==
  (NewsCall /\ ~op.news.raises) =>
    /\ Len(ret.value) = Len(WellFormed(op.news.raw_news))
    /\ \A i \in 1..Len(ret.value) :
         ret.value[i].title = WellFormed(op.news.raw_news)[i].title

SentimentLabels == {"Very Bullish", "Bullish", "Neutral", "Bearish", "Very Bearish"}

\* Every provider a sentiment request asks has failed or is missing.
AllSentimentProvidersFail ==
  /\ op.news.raises
  /\ social_media_provider = None
  /\ op.download.batch = "raise"

\* C18: predict_price and get_market_sentiment let no exception of a
\* provider out, whichever of the historical, realtime, news and social
\* calls fail: predict_price returns a PredictionResult or None, and
\* get_market_sentiment returns a scored result, which is the neutral one
\* (score 0, Neutral, no items) when no provider delivers anything.
C18_NoProviderExceptionEscapes ==
  /\ Predicting =>
       /\ ret.kind = "return"
       /\ ret.value.type \in {"None", "PredictionResult"}
       /\ AlignedDates(op.world, op.download) = {} => ret.value = NoPrediction
  /\ SentimentCall =>
       /\ ret.kind = "return"
       /\ {"score", "label", "analyzed_items"} \subseteq DOMAIN ret.value
       /\ ret.value.label \in SentimentLabels
       /\ AllSentimentProvidersFail =>
            ret.value = SentimentResult(Int2Rat(0), "Neutral", << >>)

\* The history download raises and no realtime provider has a price:
\* predict_price returns None.
C18_Witness ==
  /\ Predicting
  /\ op.download.batch = "raise"
  /\ op.realtime_btc = None /\ op.realtime_stock = None
  /\ ret = Returned(NoPrediction)

\* News, social search and history download all fail: the result is built
\* from the simulated posts, with the neutral trend.
C18_WitnessSentiment ==
  /\ SentimentCall
  /\ op.news.raises /\ op.x.raises /\ op.download.batch = "raise"
  /\ social_media_provider = Some([bearer_token |-> "token"])
  /\ ret.kind = "return"
  /\ Len(ret.value.analyzed_items) = PostsLimit
  /\ op.trend_data = [label |-> "Neutral", score |-> Int2Rat(0)]

-----------------------------------------------------------------------------
(* The upstream market state, under SpecGateway.                           *)

\* The upstream provider reports a market state with the quote info.
UpstreamReports ==
  ExtendedStockCall /\ ~op.ctor_raises /\ ~op.info.raises
  /\ op.info.marketState # None

\* The upstream state in the vocabulary of the result: REGULAR is OPEN.
UpstreamAsReported ==
  IF op.info.marketState[1] = "REGULAR" THEN "OPEN" ELSE op.info.marketState[1]

\* C19, as stated: whenever the upstream provider reports a market state the
\* returned state is the upstream one, and the state of the time windows is
\* returned only when upstream reports none.
C19_UpstreamOverridesAsStated ==
  /\ UpstreamReports => ret.value.market_state = UpstreamAsReported
  /\ (ExtendedStockCall /\ ~op.ctor_raises /\ ~UpstreamReports) =>
       ret.value.market_state = TimeWindowState(op.now)

\* C19, amended: when the upstream provider reports REGULAR, PRE, POST or
\* CLOSED the returned state is the upstream one (REGULAR as OPEN), whatever
\* the time windows say; when it reports no state, or any other state, or
\* its quote info cannot be read, the state of the time windows is returned.
C19_UpstreamOverrides ==
  (ExtendedStockCall /\ ~op.ctor_raises) =>
    /\ ret.kind = "return"
    /\ UpstreamStateGiven(op.info) => ret.value.market_state = UpstreamAsReported
    /\ ~UpstreamStateGiven(op.info) =>
         ret.value.market_state = TimeWindowState(op.now)

\* Upstream reports POST at noon on a Monday, inside the OPEN window: POST.
C19_Witness ==
  /\ UpstreamReports
  /\ op.info.marketState = Some("POST")
  /\ op.now = [weekday |-> 0, time |-> HMS(12, 0, 0)]
  /\ TimeWindowState(op.now) = "OPEN"
  /\ ret.value.market_state = "POST"

\* Upstream reports PREPRE at noon on a Monday: the OPEN of the time windows.
C19_WitnessOtherState ==
  /\ UpstreamReports
  /\ op.info.marketState = Some("PREPRE")
  /\ op.now = [weekday |-> 0, time |-> HMS(12, 0, 0)]
  /\ ret.value.market_state = "OPEN"

-----------------------------------------------------------------------------
(* Blank items, under SpecService.                                         *)

\* The title and summary of a news item, or the content of a social post,
\* are empty or whitespace only.
BlankItem(item) ==
  IF item.type = "news"
    THEN /\ strip(item.title) = << >>
         /\ (item.summary = None \/ strip(item.summary[1]) = << >>)
  ELSE strip(item.content) = << >>

\* C20: analyze skips every item whose title and summary (news) or content
\* (social) are empty or whitespace only: the analyzed items are the entries
\* of the other items, and only these contribute to the mean.
C20_BlankItemsSkipped ==
  AnalyzeCall =>
    Len(ret.value.analyzed_items)
      = Len(SelectSeq(op.items, LAMBDA item : ~BlankItem(item)))

-----------------------------------------------------------------------------
(* Per-item scoring, under SpecService.                                    *)

\* The lexicon scores a text: its compound when that is at least 0.05 or at
\* most -0.05, with Bullish or Bearish, else 0.0 and Neutral.
LexiconScored(entry, text) ==
  \/ /\ polarity_scores(text) >= 5
     /\ entry.score = Rat(polarity_scores(text), 100)
     /\ entry.sentiment = "Bullish"
  \/ /\ polarity_scores(text) <= -5
     /\ entry.score = Rat(polarity_scores(text), 100)
     /\ entry.sentiment = "Bearish"
  \/ /\ polarity_scores(text) > -5 /\ polarity_scores(text) < 5
     /\ entry.score = Int2Rat(0)
     /\ entry.sentiment = "Neutral"

\* The primary model scores a text from its classification.
ModelScored(entry, bert) ==
  \/ /\ bert.label = "positive"
     /\ entry.score = Rat(bert.score, 100)
     /\ entry.sentiment = "Bullish"
  \/ /\ bert.label = "negative"
     /\ entry.score = Rat(-bert.score, 100)
     /\ entry.sentiment = "Bearish"
  \/ /\ bert.label \notin {"positive", "negative"}
     /\ entry.score = Int2Rat(0)
     /\ entry.sentiment = "Neutral"

\* C21: with the primary model loaded, a positive classification scores
\* +confidence, a negative one -confidence and neutral 0; when the model is
\* unavailable or scoring that item raises, that item alone is scored by the
\* lexicon (Bullish if compound >= 0.05, Bearish if compound <= -0.05, else
\* Neutral), and the remaining items are still processed.
C21_PerItemScoring ==
  AnalyzeCall =>
    /\ Len(ret.value.analyzed_items) = Len(ScoredItems(op.items))
    /\ \A i \in 1..Len(ScoredItems(op.items)) :
         IF finbert_pipeline /\ ~finbert(ScoringText(ScoredItems(op.items)[i])).raises
           THEN ModelScored(ret.value.analyzed_items[i],
                            finbert(ScoringText(ScoredItems(op.items)[i])))
         ELSE LexiconScored(ret.value.analyzed_items[i],
                            ScoringText(ScoredItems(op.items)[i]))

\* The model is loaded and raises on the first of three items: that item has
\* the lexicon's -0.5, the next two the model's +0.9 and -0.6.
C21_Witness ==
  /\ AnalyzeCall
  /\ finbert_pipeline
  /\ Len(op.items) = 3
  /\ finbert(ScoringText(op.items[1])).raises
  /\ ItemScores(ret.value) = <<Rat(-1, 2), Rat(9, 10), Rat(-3, 5)>>
  /\ ret.value.analyzed_items[1].sentiment = "Bearish"
  /\ ret.value.analyzed_items[2].sentiment = "Bullish"
  /\ ret.value.analyzed_items[3].sentiment = "Bearish"

\* The model is not loaded: every item has the lexicon's score.
C21_WitnessNoModel ==
  /\ AnalyzeCall
  /\ ~finbert_pipeline
  /\ ItemScores(ret.value) = <<Rat(4, 5), Rat(-1, 5), Int2Rat(0)>>

-----------------------------------------------------------------------------
(* The model load, under SpecService.                                      *)

\* The one load this analyzer attempted failed.
LoadFailed == finbert_loads # << >> /\ finbert_loads[1] # "ok"

\* C22: the model load is attempted at most once per SentimentAnalyzer; if
\* that attempt failed then, whatever analyze calls were made since, the
\* analyzer still has no model and no further load was attempted, and every
\* analyze call returns, with every item scored by the lexicon.
C22_LoadAttemptedOnce ==
  /\ Len(finbert_loads) <= 1
  /\ LoadFailed =>
       /\ ~finbert_pipeline
       /\ op.name = "analyze" =>
            /\ ret.kind = "return"
            /\ Len(ret.value.analyzed_items) = Len(ScoredItems(op.items))
            /\ \A i \in 1..Len(ScoredItems(op.items)) :
                 LexiconScored(ret.value.analyzed_items[i],
                               ScoringText(ScoredItems(op.items)[i]))

\* The load failed and analyze was called with a text the model would have
\* scored +0.9: the lexicon's 0.8 is returned.
C22_Witness ==
  /\ finbert_loads = <<"Exception">>
  /\ ~finbert_pipeline
  /\ AnalyzeCall
  /\ Len(op.items) = 1
  /\ ~finbert(ScoringText(op.items[1])).raises
  /\ finbert(ScoringText(op.items[1])).score = 90
  /\ ItemScores(ret.value) = <<Rat(4, 5)>>

-----------------------------------------------------------------------------
(* The price trend, under SpecService.                                     *)

\* What the history provider gave the trend analysis of a sentiment request.
TrendHistory == op.historical

\* The mean of the last n closes of the ticker.
SMA(data, n) ==
  Rat(Sigma(n, [k \in 1..n |-> data[Len(data) - n + k].stock[1]]), n)

\* +0.5 when a is above b, -0.5 otherwise.
HalfPoint(a, b) == IF RGt(a, b) THEN Rat(1, 2) ELSE Rat(-1, 2)

\* C23: _analyze_price_trend returns Neutral, 0 when the series is empty or
\* has fewer than 50 rows, or on any error; otherwise the score is
\* (+0.5 if the current price is above SMA20 else -0.5)
\* + (+0.5 if SMA20 is above SMA50 else -0.5), ties counting as -0.5, so it
\* lies in [-1, 1], and the label is Bullish iff score >= 0.5, Bearish iff
\* score <= -0.5, else Neutral.
C23_PriceTrend ==
  SentimentCall =>
    IF TrendHistory.kind = "raise" \/ Len(TrendHistory.value) < 50
      THEN op.trend_data = [label |-> "Neutral", score |-> Int2Rat(0)]
    ELSE /\ op.trend_data.score
              = RAdd(HalfPoint(Int2Rat(TrendHistory.value[Len(TrendHistory.value)].stock[1]),
                               SMA(TrendHistory.value, 20)),
                     HalfPoint(SMA(TrendHistory.value, 20), SMA(TrendHistory.value, 50)))
         /\ RGeq(op.trend_data.score, Int2Rat(-1))
         /\ RGeq(Int2Rat(1), op.trend_data.score)
         /\ op.trend_data.label = "Bullish" <=> RGeq(op.trend_data.score, Rat(1, 2))
         /\ op.trend_data.label = "Bearish" <=> RGeq(Rat(-1, 2), op.trend_data.score)
         /\ op.trend_data.label \in {"Bullish", "Bearish", "Neutral"}

\* Fifty level closes: both comparisons are ties, the score is -1, Bearish.
C23_Witness ==
  /\ SentimentCall
  /\ TrendHistory.kind = "return"
  /\ Len(TrendHistory.value) = 50
  /\ Int2Rat(TrendHistory.value[50].stock[1]) = SMA(TrendHistory.value, 20)
  /\ SMA(TrendHistory.value, 20) = SMA(TrendHistory.value, 50)
  /\ op.trend_data = [label |-> "Bearish", score |-> Int2Rat(-1)]

\* Forty-nine rising closes: Neutral, 0.
C23_WitnessShort ==
  /\ SentimentCall
  /\ TrendHistory.kind = "return"
  /\ Len(TrendHistory.value) = 49
  /\ op.world.shape = "rising"
  /\ op.trend_data = [label |-> "Neutral", score |-> Int2Rat(0)]

\* Rising closes give +1 and Bullish.
C23_WitnessBullish ==
  /\ SentimentCall
  /\ op.world = [rows |-> 51, shape |-> "rising"]
  /\ op.trend_data = [label |-> "Bullish", score |-> Int2Rat(1)]

\* A last close above SMA20 with SMA20 below SMA50 gives 0 and Neutral.
C23_WitnessMixed ==
  /\ SentimentCall
  /\ TrendHistory.kind = "return"
  /\ Len(TrendHistory.value) >= 50
  /\ RGt(Int2Rat(TrendHistory.value[Len(TrendHistory.value)].stock[1]),
         SMA(TrendHistory.value, 20))
  /\ RGt(SMA(TrendHistory.value, 50), SMA(TrendHistory.value, 20))
  /\ op.trend_data = [label |-> "Neutral", score |-> Int2Rat(0)]

-----------------------------------------------------------------------------
(* The order of the provider calls of a realtime chain, under SpecGateway. *)

RealtimeCall == op.name \in {"get_realtime_btc_price", "get_realtime_stock_price"}

\* The tier of a provider call: the HTTP quote API of the chain first, the
\* general-purpose quote library second.
Tier(call) == IF call \in {"binance", "finnhub"} THEN 1 ELSE 2

\* The first tier of the chain of this call, and what it answered; the
\* low-latency provider is a tier of the chain only when a key is configured.
FirstTier == IF op.name = "get_realtime_btc_price" THEN "binance" ELSE "finnhub"
FirstTierAnswer ==
  IF op.name = "get_realtime_btc_price" THEN op.binance ELSE op.finnhub
FirstTierConfigured == op.name = "get_realtime_btc_price" \/ op.key # ""

\* C24: within one call of a realtime-price chain each provider tier is
\* invoked at most once, the tiers are invoked in priority order, and the
\* lower tier is invoked only when the higher tier of the chain has been
\* invoked and has failed in that call, never after it returned a price.
C24_NoRetryInOrder ==
  RealtimeCall =>
    /\ \A i, j \in 1..Len(calls) : i < j => calls[i] # calls[j]
    /\ \A i, j \in 1..Len(calls) : i < j => Tier(calls[i]) <= Tier(calls[j])
    /\ \A i \in 1..Len(calls) : Tier(calls[i]) = 1 => calls[i] = FirstTier
    /\ \A i, j \in 1..Len(calls) :
         (i < j /\ calls[i] = "yf.history") => calls[j] # "yf.fast_info"
    /\ (\E i \in 1..Len(calls) : calls[i] = FirstTier) <=> FirstTierConfigured
    /\ (\E i \in 1..Len(calls) : Tier(calls[i]) = 2) =>
         (FirstTierConfigured => (calls[1] = FirstTier /\ HttpFailed(FirstTierAnswer)))
    /\ (FirstTierConfigured /\ ~HttpFailed(FirstTierAnswer)) =>
         (calls = <<FirstTier>> /\ ret = Returned(FirstTierAnswer.price))

\* The spot-price API answers 503 and the quote library has no last price:
\* three provider calls, each made once, in order.
C24_Witness ==
  /\ op.name = "get_realtime_btc_price"
  /\ ~op.binance.raises /\ op.binance.status = 503
  /\ calls = <<"binance", "yf.fast_info", "yf.history">>
  /\ ret = Returned(Some(8))

\* The low-latency provider returns a price: no call of the quote library.
C24_WitnessFirstTier ==
  /\ op.name = "get_realtime_stock_price"
  /\ op.key # ""
  /\ calls = <<"finnhub">>
  /\ ret = Returned(Some(16))

-----------------------------------------------------------------------------
(* The mock generator, under SpecService.                                  *)

\* C25: the mock social generator is deterministic: a get_posts call made
\* while no provider is configured returns what any other call with the same
\* query and limit returns, whatever the random generator draws for it.
C25_MockDeterministic ==
  (PostsCall /\ op.bearer_token = "") =>
    \A draws \in MockDraws :
      get_posts(op.bearer_token, op.limit, op.x, draws) = ret.value

-----------------------------------------------------------------------------
(* The event-impact multiplier, under SpecPredict.                         *)

\* The fixed defaults.
DefaultMultipliers ==
  [l \in EventImpacts |->
     CASE l = "Very Bearish" -> <<7, 10>>
       [] l = "Bearish" -> <<17, 20>>
       [] l = "Neutral" -> <<1, 1>>
       [] l = "Bullish" -> <<23, 20>>
       [] l = "Very Bullish" -> <<13, 10>>]

-----------------------------------------------------------------------------
(* Real and simulated posts, under SpecService.                            *)

\* The API call of a get_posts request worked: a token is configured, the
\* request went through with status 200 and the body is JSON.
ApiWorked ==
  /\ op.bearer_token # ""
  /\ ~op.x.raises /\ op.x.status = 200 /\ op.x.body # "no_json"

\* The texts of the tweets of a response that can be parsed, in order.
ParsableTexts(x) ==
  IF x.body # "data" THEN << >>
  ELSE LET good == SelectSeq(x.data, LAMBDA tweet : ~tweet.malformed)
       IN [k \in 1..Len(good) |-> good[k].text]

\* C27: every list get_posts returns is all real (platform "X") or all
\* simulated (the platform carries the marker), never a mix; when the API
\* call worked the list holds the real parsable tweets only, cut to the
\* limit, and it is empty, not simulated, when there are none.
C27_Homogeneous ==
  PostsCall =>
    /\ \/ \A i \in 1..Len(ret.value) : ret.value[i].platform = "X"
       \/ \A i \in 1..Len(ret.value) : HasMarker(ret.value[i].platform)
    /\ ApiWorked =>
         /\ \A i \in 1..Len(ret.value) : ret.value[i].platform = "X"
         /\ Len(ret.value) = IF Len(ParsableTexts(op.x)) <= op.limit
                               THEN Len(ParsableTexts(op.x)) ELSE op.limit
         /\ \A i \in 1..Len(ret.value) : ret.value[i].content = ParsableTexts(op.x)[i]
    /\ (ApiWorked /\ ParsableTexts(op.x) = << >>) => ret.value = << >>
    /\ ~ApiWorked =>
         /\ Len(ret.value) = op.limit
         /\ \A i \in 1..Len(ret.value) : HasMarker(ret.value[i].platform)

\* A response with a tweet that cannot be parsed between two that can, and
\* ten posts asked for: the two real posts, nothing simulated.
C27_Witness ==
  /\ PostsCall /\ ApiWorked
  /\ op.limit = PostsLimit
  /\ Len(op.x.data) = 3
  /\ ~op.x.data[1].malformed /\ op.x.data[2].malformed /\ ~op.x.data[3].malformed
  /\ Len(ret.value) = 2
  /\ \A i \in 1..2 : ret.value[i].platform = "X"

\* The API call worked and every tweet is unparsable: the empty list.
C27_WitnessEmpty ==
  /\ PostsCall /\ ApiWorked
  /\ op.limit = PostsLimit
  /\ Len(op.x.data) = 2
  /\ \A i \in 1..2 : op.x.data[i].malformed
  /\ ret.value = << >>

-----------------------------------------------------------------------------
(* The provider calls of a prediction, under SpecPredict.                  *)

RealtimeCalls == {"get_realtime_btc_price", "get_realtime_stock_price"}

\* C28: predict_price issues no realtime-quote call it does not need: with
\* fewer than 10 rows neither realtime provider is called, with a manual
\* override above 0 for a price the realtime provider of that price is not
\* called, and the historical fetch precedes any realtime call.
C28_NoNeedlessQuote ==
  Predicting =>
    /\ Len(calls) >= 1 /\ calls[1] = "get_historical_data"
    /\ \A i \in 2..Len(calls) : calls[i] \in RealtimeCalls
    /\ Len(op.data) < 10 => \A i \in 1..Len(calls) : calls[i] \notin RealtimeCalls
    /\ op.manual_current_btc > 0 =>
         \A i \in 1..Len(calls) : calls[i] # "get_realtime_btc_price"
    /\ op.manual_current_stock > 0 =>
         \A i \in 1..Len(calls) : calls[i] # "get_realtime_stock_price"

\* Ten rows, a manual reference price and no manual proxy price: the
\* history, then the proxy quote alone.
C28_Witness ==
  /\ Predicted
  /\ Len(op.data) = 10
  /\ op.manual_current_btc > 0 /\ op.manual_current_stock = 0
  /\ calls = <<"get_historical_data", "get_realtime_stock_price">>

\* Nine rows and no manual price: the history alone.
C28_WitnessInsufficient ==
  /\ Predicting
  /\ Len(op.data) = 9
  /\ op.manual_current_btc <= 0 /\ op.manual_current_stock <= 0
  /\ calls = <<"get_historical_data">>
  /\ ret = Returned(NoPrediction)

-----------------------------------------------------------------------------
(* The time windows at their boundaries, under SpecGateway.                *)

\* The state of a weekday time of day, in seconds since midnight: before
\* 04:00:00 CLOSED, from 04:00:00 PRE, from 09:30:00 to 16:00:00 OPEN, after
\* 16:00:00 up to and including 20:00:00 POST, after 20:00:00 CLOSED.
WeekdayWindow(t) ==
  IF t < 4 * 3600 THEN "CLOSED"
  ELSE IF t < 9 * 3600 + 30 * 60 THEN "PRE"
  ELSE IF t <= 16 * 3600 THEN "OPEN"
  ELSE IF t <= 20 * 3600 THEN "POST"
  ELSE "CLOSED"

\* C29: the time-window computation of get_extended_stock_info gives every
\* weekday time of day exactly one state: 04:00:00 is PRE, 16:00:00 is OPEN,
\* every instant after 16:00:00 up to and including 20:00:00 is POST, and
\* the times before 04:00:00 and after 20:00:00 are CLOSED; that state is
\* the one returned when the upstream provider gives none.
C29_WindowBoundaries ==
  (ExtendedStockCall /\ ~op.ctor_raises /\ op.now.weekday < 5) =>
    /\ TimeWindowState(op.now) \in {"PRE", "OPEN", "POST", "CLOSED"}
    /\ TimeWindowState(op.now) = WeekdayWindow(op.now.time)
    /\ op.now.time = HMS(4, 0, 0) => TimeWindowState(op.now) = "PRE"
    /\ op.now.time = HMS(16, 0, 0) => TimeWindowState(op.now) = "OPEN"
    /\ (HMS(16, 0, 0) < op.now.time /\ op.now.time <= HMS(20, 0, 0)) =>
         TimeWindowState(op.now) = "POST"
    /\ (op.now.time < HMS(4, 0, 0) \/ op.now.time > HMS(20, 0, 0)) =>
         TimeWindowState(op.now) = "CLOSED"
    /\ ~UpstreamStateGiven(op.info) =>
         (ret.kind = "return" /\ ret.value.market_state = WeekdayWindow(op.now.time))

\* 16:00:00 on a Friday with no upstream state: OPEN.
C29_Witness ==
  /\ ExtendedStockCall /\ ~op.ctor_raises
  /\ ~op.info.raises /\ op.info.marketState = None
  /\ op.now = [weekday |-> 4, time |-> HMS(16, 0, 0)]
  /\ ret.value.market_state = "OPEN"

\* 04:00:00, 16:00:01, 20:00:00 and 20:00:01 on a Monday with no upstream
\* state: PRE, POST, POST, CLOSED.
C29_WitnessPre ==
  /\ ExtendedStockCall /\ ~op.ctor_raises /\ ~UpstreamStateGiven(op.info)
  /\ op.now = [weekday |-> 0, time |-> HMS(4, 0, 0)]
  /\ ret.value.market_state = "PRE"

C29_WitnessPost ==
  /\ ExtendedStockCall /\ ~op.ctor_raises /\ ~UpstreamStateGiven(op.info)
  /\ op.now = [weekday |-> 0, time |-> HMS(16, 0, 1)]
  /\ ret.value.market_state = "POST"

C29_WitnessPostEnd ==
  /\ ExtendedStockCall /\ ~op.ctor_raises /\ ~UpstreamStateGiven(op.info)
  /\ op.now = [weekday |-> 0, time |-> HMS(20, 0, 0)]
  /\ ret.value.market_state = "POST"

C29_WitnessClosed ==
  /\ ExtendedStockCall /\ ~op.ctor_raises /\ ~UpstreamStateGiven(op.info)
  /\ op.now = [weekday |-> 0, time |-> HMS(20, 0, 1)]
  /\ ret.value.market_state = "CLOSED"

-----------------------------------------------------------------------------
(* The gateway class against its interface, under SpecGateway.             *)

\* The operations IMarketDataProvider declares with @abstractmethod.
IMarketDataProvider ==
  {"get_realtime_btc_price", "get_realtime_stock_price", "get_extended_stock_info",
   "get_historical_data", "get_multiple_historical_data", "get_news",
   "get_fear_and_greed_index"}

\* The methods the class body of MarketDataProvider defines.
MarketDataProvider ==
  {"get_realtime_btc_price", "get_realtime_stock_price", "get_extended_stock_info",
   "_get_yfinance_price", "get_historical_data", "get_multiple_historical_data",
   "get_news"}

\* The abstract methods a class is left with: those of its base it does not
\* define.  Calling a class that is left with any raises TypeError.
abstractmethods(base, body) == base \ body

\* The gateway operations the dashboard calls on the provider itself, and
\* those the prediction facade calls for it.
DashboardCalls == {"get_extended_stock_info", "get_fear_and_greed_index"}
FacadeCalls ==
  {"get_news", "get_historical_data", "get_multiple_historical_data",
   "get_realtime_btc_price", "get_realtime_stock_price"}

\* C30: MarketDataProvider implements every operation IMarketDataProvider
\* declares abstract, get_fear_and_greed_index included, so the gateway can
\* be constructed, and every gateway operation the entry points and the
\* dashboard invoke resolves to an implementation.
C30_GatewayImplementsInterface ==
  /\ abstractmethods(IMarketDataProvider, MarketDataProvider) = {}
  /\ DashboardCalls \cup FacadeCalls \subseteq MarketDataProvider
  /\ op.name # "idle" => op.name \in MarketDataProvider

====
